---- MODULE Spec2Model ----
(***************************************************************************)
(* A model of diff-hound's review core: BaseReviewModel.review and the     *)
(* parsers behind it (src/models/base.ts, src/schemas/validate.ts,         *)
(* src/schemas/review-response.ts).                                        *)
(*                                                                         *)
(* Text.  A JavaScript string is modelled as a sequence of atoms.  An atom *)
(* is one character ("{", ":", " ", "5", "-", ...) or a run of letters     *)
(* ("comments", "src", "x") that the code never looks inside.  Characters  *)
(* outside ASCII carry a name: EmDash, EnDash, NBSP.                       *)
(*                                                                         *)
(* A backslash occurs in the model's texts only where JSON.stringify puts  *)
(* one: before n, a quote or a backslash.                                  *)
(*                                                                         *)
(* Numbers.  A JSON number is an integer count of 1/Scale: with five       *)
(* decimal places 0.6 is 60000 and 0.59999 is 59999.                       *)
(***************************************************************************)
EXTENDS Integers, Sequences, FiniteSets, TLC

----------------------------------------------------------------------------
(* Characters *)

EmDash == "&mdash;"
EnDash == "&ndash;"
NBSP   == "&nbsp;"
Quote  == "\""
Backslash == "\\"
NL     == "\n"
\* the three backquotes of a code fence
Fence  == "&fence;"

Digits == <<"0", "1", "2", "3", "4", "5", "6", "7", "8", "9">>

IsDigit(c) == \E i \in 1..10 : Digits[i] = c

DigitVal(c) == (CHOOSE i \in 1..10 : Digits[i] = c) - 1

\* Runs of letters and underscores used by the model's texts: each is made of
\* \w characters only.
Letters ==
  {"a", "x", "y", "n", "ts", "md", "src", "app", "README", "see", "fix",
   "ok", "looks", "good", "true", "false", "null",
   "summary", "comments", "file", "line", "severity", "category",
   "confidence", "title", "explanation", "suggestion", "wrong", "fields",
   "critical", "warning", "nitpick", "error",
   "bug", "security", "performance", "style", "architecture", "testing",
   "Missing", "check", "use", "const"}

\* \w of the regular expressions
IsWordChar(c) == c \in Letters \/ IsDigit(c)

\* [\w/.-]
IsPathChar(c) == IsWordChar(c) \/ c \in {"/", ".", "-"}

\* a variant that takes the hyphen alone for a dash
IsHyphen(c) == c = "-"

\* the dash of inlineCommentRegex: em dash, en dash or hyphen
IsDash(c) == c \in {EmDash, EnDash, "-"}

\* \s of the regular expressions and the characters String.prototype.trim
\* strips: the JSON white space and more (no-break space, BOM, ...).
IsSpace(c) == c \in {" ", NL, NBSP}

\* The white space JSON.parse skips between tokens.
IsJsonSpace(c) == c \in {" ", NL}

\* the least member of a non-empty set of positions
Least(S) == CHOOSE p \in S : \A q \in S : p <= q

----------------------------------------------------------------------------
(* String.prototype.trim, startsWith, endsWith *)

RECURSIVE TrimLeft(_)
TrimLeft(s) ==
  IF s # <<>> /\ IsSpace(Head(s)) THEN TrimLeft(Tail(s)) ELSE s

RECURSIVE TrimRight(_)
TrimRight(s) ==
  IF s # <<>> /\ IsSpace(s[Len(s)])
    THEN TrimRight(SubSeq(s, 1, Len(s) - 1))
    ELSE s

Trim(s) == TrimRight(TrimLeft(s))

StartsWith(s, p) == Len(p) <= Len(s) /\ SubSeq(s, 1, Len(p)) = p

EndsWith(s, p) ==
  Len(p) <= Len(s) /\ SubSeq(s, Len(s) - Len(p) + 1, Len(s)) = p

----------------------------------------------------------------------------
(* JSON values, JSON.parse and JSON.stringify (the JavaScript built-ins the *)
(* code calls).  A value is [t |-> tag, v |-> payload]; an object's payload *)
(* is the sequence of its members [k |-> key, val |-> value] in insertion   *)
(* order, with one member per key.                                          *)

\* Numbers are held to ScaleDigits decimal places.
ScaleDigits == 5

RECURSIVE Pow10(_)
Pow10(k) == IF k = 0 THEN 1 ELSE 10 * Pow10(k - 1)

Scale == Pow10(ScaleDigits)

JStr(s)  == [t |-> "str", v |-> s]
JNum(n)  == [t |-> "num", v |-> n]
JLit(x)  == [t |-> "lit", v |-> x]
JArr(e)  == [t |-> "arr", v |-> e]
JObj(ms) == [t |-> "obj", v |-> ms]
JNull    == JLit("null")

\* JavaScript's undefined: what reading an absent property gives.
Undefined == [t |-> "undef", v |-> <<>>]

Member(key, val) == [k |-> key, val |-> val]

HasKey(obj, key) == \E i \in 1..Len(obj.v) : obj.v[i].k = key

\* obj[key] for an object value
Get(obj, key) ==
  IF HasKey(obj, key)
    THEN obj.v[CHOOSE i \in 1..Len(obj.v) : obj.v[i].k = key].val
    ELSE Undefined

\* obj[key] = val: a new key is appended, an existing one keeps its place
SetMember(ms, key, val) ==
  IF \E i \in 1..Len(ms) : ms[i].k = key
    THEN [i \in 1..Len(ms) |-> IF ms[i].k = key THEN Member(key, val) ELSE ms[i]]
    ELSE Append(ms, Member(key, val))

\* the value of a run of decimal digits
RECURSIVE DigitsVal(_)
DigitsVal(ds) ==
  IF ds = <<>> THEN 0
  ELSE 10 * DigitsVal(SubSeq(ds, 1, Len(ds) - 1)) + DigitVal(ds[Len(ds)])

\* the end of the run of digits that starts at s[i] (i - 1 when there is none)
RECURSIVE DigitRunEnd(_, _)
DigitRunEnd(s, i) ==
  IF i <= Len(s) /\ IsDigit(s[i]) THEN DigitRunEnd(s, i + 1) ELSE i - 1

\* A string literal's content from s[i] on, up to the closing quote.
RECURSIVE LexString(_, _, _)
LexString(s, i, acc) ==
  IF i > Len(s) THEN [ok |-> FALSE, str |-> <<>>, next |-> i]
  ELSE IF s[i] = Quote THEN [ok |-> TRUE, str |-> acc, next |-> i + 1]
  ELSE IF s[i] = NL THEN [ok |-> FALSE, str |-> <<>>, next |-> i]
  ELSE IF s[i] = Backslash
    THEN IF i + 1 > Len(s) THEN [ok |-> FALSE, str |-> <<>>, next |-> i]
         ELSE IF s[i + 1] = "n" THEN LexString(s, i + 2, Append(acc, NL))
         ELSE IF s[i + 1] \in {Quote, Backslash, "/"}
           THEN LexString(s, i + 2, Append(acc, s[i + 1]))
         ELSE [ok |-> FALSE, str |-> <<>>, next |-> i]
  ELSE LexString(s, i + 1, Append(acc, s[i]))

\* A number literal at s[i]: -? (0 | [1-9][0-9]*) (. [0-9]+)?
LexNumber(s, i) ==
  LET neg     == s[i] = "-"
      j       == IF neg THEN i + 1 ELSE i
      intEnd  == DigitRunEnd(s, j)
      hasFrac == intEnd + 1 <= Len(s) /\ s[intEnd + 1] = "."
      fracEnd == IF hasFrac THEN DigitRunEnd(s, intEnd + 2) ELSE intEnd
      fracLen == IF hasFrac THEN fracEnd - (intEnd + 1) ELSE 0
      intVal  == DigitsVal(SubSeq(s, j, intEnd))
      fracVal == IF fracLen = 0 THEN 0
                 ELSE IF fracLen <= ScaleDigits
                   THEN DigitsVal(SubSeq(s, intEnd + 2, fracEnd))
                          * Pow10(ScaleDigits - fracLen)
                 ELSE DigitsVal(SubSeq(s, intEnd + 2, intEnd + 1 + ScaleDigits))
      mag     == intVal * Scale + fracVal
  IN  IF intEnd < j \/ (intEnd > j /\ s[j] = "0") \/ (hasFrac /\ fracLen = 0)
        THEN [ok |-> FALSE, val |-> 0, next |-> i]
        ELSE [ok |-> TRUE, val |-> IF neg THEN 0 - mag ELSE mag,
              next |-> fracEnd + 1]

\* the first place from s[i] on that holds no JSON white space
RECURSIVE SkipSpace(_, _)
SkipSpace(s, i) ==
  IF i <= Len(s) /\ IsJsonSpace(s[i]) THEN SkipSpace(s, i + 1) ELSE i

\* s[i], or "eof" past the end
CharAt(s, i) == IF i <= Len(s) THEN s[i] ELSE "eof"

ParseFail == [ok |-> FALSE, val |-> Undefined, next |-> 0]

Parsed(val, next) == [ok |-> TRUE, val |-> val, next |-> next]

\* The value that starts at s[i], the elements of an array from s[i] on and
\* the members of an object from s[i] on; next is the place after it.
RECURSIVE ParseValue(_, _), ParseElems(_, _, _), ParseMembers(_, _, _)
ParseValue(s, i) ==
  CASE CharAt(s, i) = Quote ->
         LET r == LexString(s, i + 1, <<>>)
         IN  IF r.ok THEN Parsed(JStr(r.str), r.next) ELSE ParseFail
    [] CharAt(s, i) = "-" \/ IsDigit(CharAt(s, i)) ->
         LET r == LexNumber(s, i)
         IN  IF r.ok THEN Parsed(JNum(r.val), r.next) ELSE ParseFail
    [] CharAt(s, i) \in {"true", "false", "null"} ->
         Parsed(JLit(s[i]), i + 1)
    [] CharAt(s, i) = "[" ->
         IF CharAt(s, SkipSpace(s, i + 1)) = "]"
           THEN Parsed(JArr(<<>>), SkipSpace(s, i + 1) + 1)
           ELSE ParseElems(s, SkipSpace(s, i + 1), <<>>)
    [] CharAt(s, i) = "{" ->
         IF CharAt(s, SkipSpace(s, i + 1)) = "}"
           THEN Parsed(JObj(<<>>), SkipSpace(s, i + 1) + 1)
           ELSE ParseMembers(s, SkipSpace(s, i + 1), <<>>)
    [] OTHER -> ParseFail

ParseElems(s, i, acc) ==
  LET r   == ParseValue(s, i)
      sep == SkipSpace(s, r.next)
  IN  IF ~r.ok THEN ParseFail
      ELSE CASE CharAt(s, sep) = "," ->
                  ParseElems(s, SkipSpace(s, sep + 1), Append(acc, r.val))
             [] CharAt(s, sep) = "]" ->
                  Parsed(JArr(Append(acc, r.val)), sep + 1)
             [] OTHER -> ParseFail

ParseMembers(s, i, acc) ==
  LET key   == IF CharAt(s, i) = Quote THEN LexString(s, i + 1, <<>>)
               ELSE [ok |-> FALSE, str |-> <<>>, next |-> i]
      colon == SkipSpace(s, key.next)
  IN  IF ~key.ok \/ CharAt(s, colon) # ":" THEN ParseFail
      ELSE LET r   == ParseValue(s, SkipSpace(s, colon + 1))
               sep == SkipSpace(s, r.next)
           IN  IF ~r.ok THEN ParseFail
               ELSE CASE CharAt(s, sep) = "," ->
                           ParseMembers(s, SkipSpace(s, sep + 1),
                                        SetMember(acc, key.str, r.val))
                      [] CharAt(s, sep) = "}" ->
                           Parsed(JObj(SetMember(acc, key.str, r.val)), sep + 1)
                      [] OTHER -> ParseFail

\* JSON.parse(s): ok = FALSE stands for the SyntaxError it throws
JSONParse(s) ==
  LET r == ParseValue(s, SkipSpace(s, 1))
  IN  IF r.ok /\ SkipSpace(s, r.next) = Len(s) + 1
        THEN [ok |-> TRUE, val |-> r.val]
        ELSE [ok |-> FALSE, val |-> Undefined]

\* the decimal digits of a natural number
RECURSIVE NatText(_)
NatText(n) ==
  IF n < 10 THEN <<Digits[n + 1]>>
  ELSE Append(NatText(n \div 10), Digits[(n % 10) + 1])

\* the digits of a fraction f/10^k, trailing zeros dropped
RECURSIVE FracText(_, _)
FracText(f, k) ==
  IF f = 0 THEN <<>>
  ELSE <<Digits[(f \div Pow10(k - 1)) + 1]>> \o FracText(f % Pow10(k - 1), k - 1)

\* Number.prototype.toString for a number held as a count of 1/Scale
NumText(n) ==
  LET mag  == IF n < 0 THEN 0 - n ELSE n
      body == NatText(mag \div Scale)
                \o (IF mag % Scale = 0 THEN <<>>
                    ELSE <<".">> \o FracText(mag % Scale, ScaleDigits))
  IN  IF n < 0 THEN <<"-">> \o body ELSE body

\* a string literal: quotes around the escaped content
RECURSIVE Escaped(_)
Escaped(s) ==
  IF s = <<>> THEN <<>>
  ELSE (IF Head(s) = NL THEN <<Backslash, "n">>
        ELSE IF Head(s) \in {Quote, Backslash} THEN <<Backslash, Head(s)>>
        ELSE <<Head(s)>>) \o Escaped(Tail(s))

StrText(s) == <<Quote>> \o Escaped(s) \o <<Quote>>

\* JSON.stringify(value)
RECURSIVE Stringify(_), StringifyElems(_), StringifyMembers(_)
Stringify(val) ==
  IF val.t = "str" THEN StrText(val.v)
  ELSE IF val.t = "num" THEN NumText(val.v)
  ELSE IF val.t = "lit" THEN <<val.v>>
  ELSE IF val.t = "arr" THEN <<"[">> \o StringifyElems(val.v) \o <<"]">>
  ELSE <<"{">> \o StringifyMembers(val.v) \o <<"}">>

StringifyElems(es) ==
  IF es = <<>> THEN <<>>
  ELSE Stringify(Head(es))
         \o (IF Len(es) > 1 THEN <<",">> \o StringifyElems(Tail(es)) ELSE <<>>)

StringifyMembers(ms) ==
  IF ms = <<>> THEN <<>>
  ELSE StrText(Head(ms).k) \o <<":">> \o Stringify(Head(ms).val)
         \o (IF Len(ms) > 1 THEN <<",">> \o StringifyMembers(Tail(ms)) ELSE <<>>)


----------------------------------------------------------------------------
(* Optional values: None for an absent property, Some(x) for a present one *)

None == <<>>

Some(x) == <<x>>

\* the member of a singleton set; The({e(x) : x \in {v}}) is e with x bound
\* to the value of v
The(S) == CHOOSE x \in S : TRUE

----------------------------------------------------------------------------
(* src/schemas/validate.ts *)

\* typeof v === "object" && v !== null: objects and arrays
IsObjectLike(v) == v.t \in {"obj", "arr"}

\* v[key] for an object-like value; an array has none of the schema's keys
Prop(v, key) == IF v.t = "obj" THEN Get(v, <<key>>) ELSE Undefined

validSeverities == <<"critical", "warning", "suggestion", "nitpick">>

validCategories ==
  <<"bug", "security", "performance", "style", "architecture", "testing">>

\* Array.prototype.includes on an array of strings
Includes(arr, v) ==
  v.t = "str" /\ \E i \in 1..Len(arr) : v.v = <<arr[i]>>

\* a variant that lets the empty string through
IsAnyString(v) == v.t = "str"

IsNonEmptyString(v) == v.t = "str" /\ Len(v.v) > 0

\* `comments[i]`, the prefix of a comment's error strings (i counts from 0)
Prefix(i) == <<"comments[">> \o NatText(i) \o <<"]">>

\* The error strings of one entry of `comments`, in the order of the checks.
CommentErrors(c, i) ==
  IF ~IsObjectLike(c) THEN <<Prefix(i) \o <<" must be an object">>>>
  ELSE
    (IF ~IsNonEmptyString(Prop(c, "file"))
       THEN <<Prefix(i) \o <<".file is required and must be a non-empty string">>>>
       ELSE <<>>)
    \o (IF Prop(c, "line").t # "num" \/ Prop(c, "line").v % Scale # 0
           \/ Prop(c, "line").v < Scale
          THEN <<Prefix(i) \o <<".line must be a positive integer">>>>
          ELSE <<>>)
    \o (IF ~Includes(validSeverities, Prop(c, "severity"))
          THEN <<Prefix(i) \o <<".severity must be one of: critical, warning, suggestion, nitpick">>>>
          ELSE <<>>)
    \o (IF ~Includes(validCategories, Prop(c, "category"))
          THEN <<Prefix(i) \o <<".category must be one of: bug, security, performance, style, architecture, testing">>>>
          ELSE <<>>)
    \o (IF Prop(c, "confidence").t # "num" \/ Prop(c, "confidence").v < 0
           \/ Prop(c, "confidence").v > Scale
          THEN <<Prefix(i) \o <<".confidence must be a number between 0 and 1">>>>
          ELSE <<>>)
    \o (IF ~IsNonEmptyString(Prop(c, "title"))
          THEN <<Prefix(i) \o <<".title is required and must be a non-empty string">>>>
          ELSE <<>>)
    \o (IF ~IsNonEmptyString(Prop(c, "explanation"))
          THEN <<Prefix(i) \o <<".explanation is required and must be a non-empty string">>>>
          ELSE <<>>)
    \o (IF Prop(c, "suggestion").t \notin {"undef", "str"}
          THEN <<Prefix(i) \o <<".suggestion must be a string if provided">>>>
          ELSE <<>>)

\* a variant that stops at the first violation of an entry
RECURSIVE AllCommentErrorsFirstOnly(_, _)
AllCommentErrorsFirstOnly(cs, i) ==
  IF i > Len(cs) THEN <<>>
  ELSE SubSeq(CommentErrors(cs[i], i - 1), 1, 1)
         \o AllCommentErrorsFirstOnly(cs, i + 1)

\* the loop over response.comments, from entry i (counted from 1) on
RECURSIVE AllCommentErrors(_, _)
AllCommentErrors(cs, i) ==
  IF i > Len(cs) THEN <<>>
  ELSE CommentErrors(cs[i], i - 1) \o AllCommentErrors(cs, i + 1)

validateStructuredResponse(data) ==
  IF ~IsObjectLike(data)
    THEN [valid |-> FALSE, errors |-> <<<<"Response must be an object">>>>]
  ELSE IF Prop(data, "comments").t # "arr"
    THEN [valid |-> FALSE, errors |-> <<<<"'comments' must be an array">>>>]
  ELSE
    LET errors ==
          AllCommentErrors(Prop(data, "comments").v, 1)
          \o (IF Prop(data, "summary").t \notin {"undef", "str"}
                THEN <<<<"'summary' must be a string if provided">>>>
                ELSE <<>>)
    IN  [valid |-> Len(errors) = 0, errors |-> errors]

\* Array.prototype.join
RECURSIVE Join(_, _)
Join(strs, sep) ==
  IF strs = <<>> THEN <<>>
  ELSE IF Len(strs) = 1 THEN strs[1]
  ELSE strs[1] \o sep \o Join(Tail(strs), sep)

\* parseStructuredResponse of validate.ts; the message of the SyntaxError is
\* the engine's and is held as one atom.
\* what the function returns once JSON.parse has returned parsed
\* a variant that hands on the comments of confidence 0.6 or more only
ValidationFiltering(parsed) ==
  LET validation == validateStructuredResponse(parsed)
      kept == SelectSeq(Get(parsed, <<"comments">>).v,
                        LAMBDA c : Get(c, <<"confidence">>).v >= (6 * Scale) \div 10)
  IN  IF ~validation.valid
        THEN [success |-> FALSE, data |-> None,
              error |-> Some(<<"Validation failed: ">>
                               \o Join(validation.errors, <<"; ">>))]
        ELSE [success |-> TRUE,
              data |-> Some(JObj(SetMember(parsed.v, <<"comments">>, JArr(kept)))),
              error |-> None]

\* a variant that reports the first error only
ValidationFirstError(parsed) ==
  LET validation == validateStructuredResponse(parsed)
  IN  IF ~validation.valid
        THEN [success |-> FALSE, data |-> None,
              error |-> Some(<<"Validation failed: ">> \o validation.errors[1])]
        ELSE [success |-> TRUE, data |-> Some(parsed), error |-> None]

ValidationResult(parsed) ==
  LET validation == validateStructuredResponse(parsed)
  IN  IF ~validation.valid
        THEN [success |-> FALSE, data |-> None,
              error |-> Some(<<"Validation failed: ">>
                               \o Join(validation.errors, <<"; ">>))]
        ELSE [success |-> TRUE, data |-> Some(parsed), error |-> None]

parseStructuredResponse(json) ==
  The({IF ~parsed.ok
         THEN [success |-> FALSE, data |-> None,
               error |-> Some(<<"JSON parse error: ", "SyntaxError">>)]
         ELSE ValidationResult(parsed.val) : parsed \in {JSONParse(json)}})

\* a variant that does not trim the response
looksLikeUntrimmed(response) ==
  IF ~StartsWith(response, <<"{">>) THEN FALSE
  ELSE \E parsed \in {JSONParse(response)} :
         parsed.ok /\ Prop(parsed.val, "comments").t = "arr"

\* a variant that also asks for a summary that is a string
looksLikeWithSummary(response) ==
  LET trimmed == Trim(response)
  IN  IF ~StartsWith(trimmed, <<"{">>) THEN FALSE
      ELSE \E parsed \in {JSONParse(trimmed)} :
             /\ parsed.ok /\ Prop(parsed.val, "comments").t = "arr"
             /\ Prop(parsed.val, "summary").t = "str"

looksLikeStructuredResponse(response) ==
  LET trimmed == Trim(response)
  IN  IF ~StartsWith(trimmed, <<"{">>) THEN FALSE
      ELSE \E parsed \in {JSONParse(trimmed)} :
             parsed.ok /\ Prop(parsed.val, "comments").t = "arr"


----------------------------------------------------------------------------
(* Comments: AIComment of src/types/index.ts.  path, line and severity are  *)
(* optional.                                                                *)

AIComment(type, path, line, content, severity) ==
  [type |-> type, path |-> path, line |-> line, content |-> content,
   severity |-> severity]

----------------------------------------------------------------------------
(* src/schemas/review-response.ts *)

\* a variant that maps every severity to itself
severityUnmapped(sev) == sev

\* severityMap of toAIComment
severityMap(sev) ==
  IF sev = "critical" THEN "error"
  ELSE IF sev = "warning" THEN "warning"
  ELSE IF sev = "suggestion" THEN "suggestion"
  ELSE "suggestion"

UpperCased ==
  [w \in {"bug", "security", "performance", "style", "architecture", "testing"}
     |-> CASE w = "bug" -> "Bug"
           [] w = "security" -> "Security"
           [] w = "performance" -> "Performance"
           [] w = "style" -> "Style"
           [] w = "architecture" -> "Architecture"
           [] w = "testing" -> "Testing"]

\* str.charAt(0).toUpperCase() + str.slice(1)
capitalize(str) ==
  IF str # <<>> /\ Head(str) \in DOMAIN UpperCased
    THEN <<UpperCased[Head(str)]>> \o Tail(str)
    ELSE str

\* Math.round(confidence * 100) for a confidence held as a count of 1/Scale
confidencePercent(confidence) == (confidence * 100 + Scale \div 2) \div Scale

\* the block toAIComment appends for a suggestion
SuggestionBlock(suggestion) ==
  <<NL, NL, "**Suggestion:**", NL, Fence, NL>> \o suggestion \o <<NL, Fence>>

\* `if (comment.suggestion)`: a non-empty string
Truthy(v) == v.t = "str" /\ Len(v.v) > 0

toAIComment(comment) ==
  LET content ==
        <<"**[">> \o capitalize(Prop(comment, "category").v) \o <<"] ">>
        \o Prop(comment, "title").v \o <<"**">>
        \o <<" (confidence: ">>
        \o NatText(confidencePercent(Prop(comment, "confidence").v)) \o <<"%)">>
        \o <<NL, NL>> \o Prop(comment, "explanation").v
        \o (IF Truthy(Prop(comment, "suggestion"))
              THEN SuggestionBlock(Prop(comment, "suggestion").v)
              ELSE <<>>)
  IN  AIComment("inline",
                Some(Prop(comment, "file").v),
                Some(Prop(comment, "line").v \div Scale),
                content,
                Some(severityMap(Prop(comment, "severity").v[1])))

----------------------------------------------------------------------------
(* Configuration: the fields of ReviewConfig that review reads.             *)
(* severity and commentStyle are None when unset; ignoreFiles is a list of  *)
(* patterns (None when unset); a file name and a pattern are texts.         *)

ReviewConfig(severity, commentStyle, ignoreFiles) ==
  [severity |-> severity, commentStyle |-> commentStyle,
   ignoreFiles |-> ignoreFiles]

----------------------------------------------------------------------------
(* src/models/base.ts: parseFreeTextResponse                                *)
(*                                                                          *)
(* inlineCommentRegex is, piece by piece: a run of path characters (word,   *)
(* slash, dot, hyphen), a colon, a run of digits, optional white space, a   *)
(* dash (em dash, en dash or hyphen), optional white space, a lazy group of *)
(* any characters, and a lookahead: white space followed by another         *)
(* path-colon-digits-dash head, or the end of the input.  Flags g and s.    *)
(*                                                                          *)
(* Every quantifier before the lazy group is followed by a character it     *)
(* cannot match itself, so a match takes each run whole; the lazy group     *)
(* can always end at the end of the input, so the first place where the     *)
(* lookahead holds ends it.                                                 *)

RECURSIVE PathRunEnd(_, _)
PathRunEnd(t, i) ==
  IF i <= Len(t) /\ IsPathChar(t[i]) THEN PathRunEnd(t, i + 1) ELSE i - 1

RECURSIVE SpaceRunEnd(_, _)
SpaceRunEnd(t, i) ==
  IF i <= Len(t) /\ IsSpace(t[i]) THEN SpaceRunEnd(t, i + 1) ELSE i - 1

\* the head of the pattern (path, colon, digits, white space, dash) at t[p]
HeadAt(t, p) ==
  LET pathEnd == PathRunEnd(t, p)
      lineEnd == DigitRunEnd(t, pathEnd + 2)
      dashAt  == SpaceRunEnd(t, lineEnd + 1) + 1
  IN  [ok |-> /\ pathEnd >= p
              /\ pathEnd + 1 <= Len(t) /\ t[pathEnd + 1] = ":"
              /\ lineEnd >= pathEnd + 2
              /\ dashAt <= Len(t) /\ IsDash(t[dashAt]),
       pathEnd |-> pathEnd, lineEnd |-> lineEnd, dashAt |-> dashAt]

\* the lookahead at t[q]
LookaheadAt(t, q) ==
  \/ q = Len(t) + 1
  \/ /\ q <= Len(t)
     /\ IsSpace(t[q])
     /\ HeadAt(t, SpaceRunEnd(t, q) + 1).ok

\* the end of the lazy group that starts at t[q]: the first place from
\* q on where the lookahead holds (it holds at the end of the input)
ContentEnd(t, q) == Least({e \in q..(Len(t) + 1) : LookaheadAt(t, e)})

NoMatch == [found |-> FALSE, path |-> <<>>, lineStr |-> <<>>, content |-> <<>>,
            lastIndex |-> 0]

\* inlineCommentRegex.exec(t) with lastIndex = from - 1: the leftmost match
Exec(t, from) ==
  LET starts == {p \in from..Len(t) : HeadAt(t, p).ok}
  IN  IF starts = {} THEN NoMatch
      ELSE LET start        == Least(starts)
               h            == HeadAt(t, start)
               contentStart == SpaceRunEnd(t, h.dashAt + 1) + 1
               contentEnd   == ContentEnd(t, contentStart)
           IN  [found |-> TRUE,
                path |-> SubSeq(t, start, h.pathEnd),
                lineStr |-> SubSeq(t, h.pathEnd + 2, h.lineEnd),
                content |-> SubSeq(t, contentStart, contentEnd - 1),
                lastIndex |-> contentEnd]

\* the while loop over the matches, from t[from] on
RECURSIVE InlineComments(_, _, _)
InlineComments(t, from, config) ==
  LET match == Exec(t, from)
  IN  IF ~match.found THEN <<>>
      ELSE <<AIComment("inline", Some(match.path),
                       Some(DigitsVal(match.lineStr)),
                       Trim(match.content), config.severity)>>
           \o InlineComments(t, match.lastIndex, config)

\* a variant without the summary that stands in for no match
parseFreeTextNoFallback(response, config) ==
  IF config.commentStyle = Some("summary")
    THEN <<AIComment("summary", None, None, Trim(response), config.severity)>>
  ELSE InlineComments(response \o <<NL, NL>>, 1, config)

\* a variant that looks for occurrences whatever the comment style
parseFreeTextAlwaysInline(response, config) ==
  LET comments == InlineComments(response \o <<NL, NL>>, 1, config)
  IN  IF Len(comments) = 0
        THEN <<AIComment("summary", None, None, Trim(response),
                         config.severity)>>
        ELSE comments

parseFreeTextResponse(response, config) ==
  IF config.commentStyle = Some("summary")
    THEN <<AIComment("summary", None, None, Trim(response), config.severity)>>
  ELSE LET comments == InlineComments(response \o <<NL, NL>>, 1, config)
       IN  IF Len(comments) = 0
             THEN <<AIComment("summary", None, None, Trim(response),
                              config.severity)>>
             ELSE comments


----------------------------------------------------------------------------
(* src/models/base.ts: filterIgnoredFiles                                   *)

\* FileChange of src/types/index.ts; patch and previousFilename are optional
FileChange(filename, status, additions, deletions, patch, previousFilename) ==
  [filename |-> filename, status |-> status, additions |-> additions,
   deletions |-> deletions, patch |-> patch,
   previousFilename |-> previousFilename]

\* a variant that knows no pattern but the filename itself
MatchesExactly(filename, pattern) == filename = pattern

\* the callback of ignoreFiles.some
MatchesPattern(filename, pattern) ==
  IF StartsWith(pattern, <<"*">>)
     /\ \E i \in 2..Len(pattern) : pattern[i] = "."
    THEN EndsWith(filename, Tail(pattern))
    ELSE filename = pattern

IsIgnored(file, patterns) ==
  \E i \in 1..Len(patterns) : MatchesPattern(file.filename, patterns[i])

RECURSIVE KeepNotIgnored(_, _)
KeepNotIgnored(diff, patterns) ==
  IF diff = <<>> THEN <<>>
  ELSE (IF IsIgnored(Head(diff), patterns) THEN <<>> ELSE <<Head(diff)>>)
         \o KeepNotIgnored(Tail(diff), patterns)

\* a variant that ignores no file
filterNothing(diff, config) == diff

filterIgnoredFiles(diff, config) ==
  IF config.ignoreFiles = None \/ Len(config.ignoreFiles[1]) = 0
    THEN diff
    ELSE KeepNotIgnored(diff, config.ignoreFiles[1])

----------------------------------------------------------------------------
(* src/core/parseUnifiedDiff.ts.  A patch is a text whose lines begin with  *)
(* the characters +, -, space, @ or backslash.                              *)

\* String.prototype.split on the line break
RECURSIVE SplitLines(_)
SplitLines(text) ==
  LET breaks == {i \in 1..Len(text) : text[i] = NL}
  IN  IF breaks = {} THEN <<text>>
      ELSE <<SubSeq(text, 1, Least(breaks) - 1)>>
             \o SplitLines(SubSeq(text, Least(breaks) + 1, Len(text)))

\* the end of the optional group (?:,\d+)? at line[i]: i - 1 when it is absent
OptLenEnd(line, i) ==
  IF i <= Len(line) /\ line[i] = "," /\ DigitRunEnd(line, i + 1) >= i + 1
    THEN DigitRunEnd(line, i + 1)
    ELSE i - 1

\* line.match(/^@@ -\d+(?:,\d+)? \+(\d+)(?:,\d+)? @@/); newStart is the group
HunkMatch(line) ==
  LET oldEnd    == DigitRunEnd(line, 5)
      oldLenEnd == OptLenEnd(line, oldEnd + 1)
      newAt     == oldLenEnd + 3
      newEnd    == DigitRunEnd(line, newAt)
      newLenEnd == OptLenEnd(line, newEnd + 1)
  IN  [ok |-> /\ StartsWith(line, <<"@", "@", " ", "-">>)
              /\ oldEnd >= 5
              /\ Len(line) >= oldLenEnd + 2
              /\ SubSeq(line, oldLenEnd + 1, oldLenEnd + 2) = <<" ", "+">>
              /\ newEnd >= newAt
              /\ Len(line) >= newLenEnd + 3
              /\ SubSeq(line, newLenEnd + 1, newLenEnd + 3) = <<" ", "@", "@">>,
       newStart |-> SubSeq(line, newAt, newEnd)]

\* the for loop over the lines, from lines[i] on
RECURSIVE AnnotateLines(_, _, _, _)
AnnotateLines(lines, i, newLineNum, lineOffset) ==
  IF i > Len(lines) THEN <<>>
  ELSE
    LET line == lines[i]
    IN  IF HunkMatch(line).ok
          THEN <<line>>
                 \o AnnotateLines(lines, i + 1,
                                  DigitsVal(HunkMatch(line).newStart), 0)
        ELSE IF StartsWith(line, <<"+">>) /\ ~StartsWith(line, <<"+", "+", "+">>)
          THEN <<line \o <<" // LINE_NUMBER: ">>
                      \o NatText(newLineNum + lineOffset)>>
                 \o AnnotateLines(lines, i + 1, newLineNum, lineOffset + 1)
        ELSE IF StartsWith(line, <<"-">>) /\ ~StartsWith(line, <<"-", "-", "-">>)
          THEN <<line>> \o AnnotateLines(lines, i + 1, newLineNum, lineOffset)
        ELSE <<line>> \o AnnotateLines(lines, i + 1, newLineNum, lineOffset + 1)

\* the callback of files.map
AnnotateFile(file) ==
  IF file.patch = None \/ file.patch[1] = <<>> \/ file.status = "deleted"
    THEN file
    ELSE [file EXCEPT
            !.patch = Some(Join(AnnotateLines(SplitLines(file.patch[1]), 1, 0, 0),
                                <<NL>>))]

parseUnifiedDiff(files) == [i \in 1..Len(files) |-> AnnotateFile(files[i])]

\* a variant that writes the annotated files into the caller's list
FilesAfterInPlace(files) == parseUnifiedDiff(files)

\* the caller's list after the call: map and the spread make new values,
\* nothing is assigned to a file or to the list
FilesAfter(files) == files

----------------------------------------------------------------------------
(* src/models/base.ts: parseStructuredResponse, the method of               *)
(* BaseReviewModel.  Its second half is the Normalizer.                     *)

severityOrder == <<"critical", "warning", "suggestion", "nitpick">>

\* Array.prototype.indexOf: counted from 0, -1 when absent
IndexOf(arr, x) ==
  IF \E i \in 1..Len(arr) : arr[i] = x
    THEN (CHOOSE i \in 1..Len(arr) : arr[i] = x) - 1
    ELSE 0 - 1

\* const minConfidence = 0.6
minConfidence == (6 * Scale) \div 10

\* config.severity || "suggestion"
minSeverity(config) ==
  IF config.severity = None THEN "suggestion" ELSE config.severity[1]

\* the severity of a comment as a string ("" when it is no string)
SeverityText(c) ==
  IF Prop(c, "severity").t = "str" /\ Len(Prop(c, "severity").v) = 1
    THEN Prop(c, "severity").v[1]
    ELSE ""

\* a variant that also skips a comment at the threshold
AtOrBelowMinSeverity(c, config) ==
  IndexOf(severityOrder, SeverityText(c))
    >= IndexOf(severityOrder, minSeverity(config))

\* commentSeverityIndex > minSeverityIndex
BelowMinSeverity(c, config) ==
  IndexOf(severityOrder, SeverityText(c))
    > IndexOf(severityOrder, minSeverity(config))

\* a variant that also skips a comment at the threshold
AtOrBelowMinConfidence(c) ==
  Prop(c, "confidence").t = "num" /\ Prop(c, "confidence").v <= minConfidence

\* structuredComment.confidence < minConfidence
BelowMinConfidence(c) ==
  Prop(c, "confidence").t = "num" /\ Prop(c, "confidence").v < minConfidence

Skipped(c, config) == BelowMinSeverity(c, config) \/ BelowMinConfidence(c)

\* a variant that also drops the first comment it would keep
severityFilterDroppingFirst(cs, config) ==
  IF SelectSeq(cs, LAMBDA c : ~BelowMinSeverity(c, config)) = <<>> THEN <<>>
  ELSE Tail(SelectSeq(cs, LAMBDA c : ~BelowMinSeverity(c, config)))

\* lines 241-258: the comments the severity check of the loop lets through
severityFilter(cs, config) ==
  SelectSeq(cs, LAMBDA c : ~BelowMinSeverity(c, config))

\* A TypeError: reading a property of null, or capitalize of a category
\* that is no string.
CommentThrows(c, config) ==
  \/ c.t = "lit" /\ c.v = "null"
  \/ ~Skipped(c, config) /\ Prop(c, "category").t # "str"

\* the for loop over structuredResponse.comments
RECURSIVE ConvertComments(_, _)
ConvertComments(cs, config) ==
  IF cs = <<>> THEN [threw |-> FALSE, comments |-> <<>>]
  ELSE IF CommentThrows(Head(cs), config)
    THEN [threw |-> TRUE, comments |-> <<>>]
  ELSE LET rest == ConvertComments(Tail(cs), config)
       IN  IF rest.threw THEN rest
           ELSE [threw |-> FALSE,
                 comments |->
                   (IF Skipped(Head(cs), config) THEN <<>>
                    ELSE <<toAIComment(Head(cs))>>) \o rest.comments]

\* a variant that emits the summary for every summary present, after the
\* comments
NormalizeSummaryLast(structuredResponse, config) ==
  LET summary   == Prop(structuredResponse, "summary")
      converted == ConvertComments(Prop(structuredResponse, "comments").v, config)
  IN  [threw |-> converted.threw,
       comments |->
         converted.comments
         \o (IF summary.t = "str"
               THEN <<AIComment("summary", None, None, summary.v, config.severity)>>
               ELSE <<>>)]

\* lines 229-270: the Normalizer, on the validated response
Normalize(structuredResponse, config) ==
  LET summary   == Prop(structuredResponse, "summary")
      converted == ConvertComments(Prop(structuredResponse, "comments").v, config)
  IN  [threw |-> converted.threw,
       comments |->
         (IF Truthy(summary)
            THEN <<AIComment("summary", None, None, summary.v, config.severity)>>
            ELSE <<>>) \o converted.comments]

\* The method: the comments it returns, the parser that made them, what it
\* passed to console.warn and whether it threw.
\* a variant that throws where the method falls back
StructuredOutcomeThrowing(result, response, config) ==
  IF ~result.success \/ result.data = None
    THEN [threw |-> TRUE, parser |-> "none", warned |-> <<>>,
          comments |-> <<>>]
    ELSE The({[threw |-> n.threw, parser |-> "normalizer",
               warned |-> <<>>, comments |-> n.comments] :
              n \in {Normalize(result.data[1], config)}})

\* lines 219-270: what the method does with the structured parser's result
StructuredOutcome(result, response, config) ==
  IF ~result.success \/ result.data = None
    THEN [threw |-> FALSE, parser |-> "legacy",
          warned |-> <<result.error>>,
          comments |-> parseFreeTextResponse(response, config)]
    ELSE The({[threw |-> n.threw, parser |-> "normalizer",
               warned |-> <<>>, comments |-> n.comments] :
              n \in {Normalize(result.data[1], config)}})

BaseParseStructuredResponse(response, config) ==
  IF ~looksLikeStructuredResponse(response)
    THEN [threw |-> FALSE, parser |-> "legacy", warned |-> <<>>,
          comments |-> parseFreeTextResponse(response, config)]
  ELSE The({StructuredOutcome(result, response, config) :
            result \in {parseStructuredResponse(response)}})

\* a variant that takes every adapter for a structured one
ParseRawAlwaysStructured(supportsStructuredOutput, raw, config) ==
  BaseParseStructuredResponse(raw, config)

\* lines 91-93 of review: the parser chosen by supportsStructuredOutput()
ParseRaw(supportsStructuredOutput, raw, config) ==
  IF supportsStructuredOutput
    THEN BaseParseStructuredResponse(raw, config)
    ELSE [threw |-> FALSE, parser |-> "legacy", warned |-> <<>>,
          comments |-> parseFreeTextResponse(raw, config)]


----------------------------------------------------------------------------
(* The state of one adapter and of the review call made on it               *)

VARIABLES
  structured,  \* what the adapter's supportsStructuredOutput() returns
  pc,          \* "idle", "calling" (awaiting callLLM), "done", "failed"
  diff,        \* the arguments of the call
  config,
  prompted,    \* the files of the prompt handed to callLLM
  llmCalls,    \* the number of callLLM invocations of the call
  raw,         \* the text callLLM resolved with (None before)
  rejected,    \* the error callLLM rejected with (None when it did not)
  parser,      \* the parser that made the result: "none", "legacy", "normalizer"
  result,      \* the comment list review returned (None before)
  thrown,      \* the error review threw (None when it did not)
  warnings,    \* the console.warn calls, in order
  errors,      \* the console.error calls, in order
  call,        \* the last call of an exported function: its name, its
               \* argument and what it returned (None before any)
  objects,     \* the caller's diffs and configs, by reference
  calls,       \* the review calls in flight, each with the values its
               \* frame holds
  main         \* the run of main(): its place, the pull requests, the one
               \* in work, the results, the process's exit code

\* the state of the review call
reviewVars == <<structured, pc, diff, config, prompted, llmCalls, raw, rejected,
                parser, result, thrown, warnings, errors>>

\* the state outside the review call
otherVars == <<call, objects, calls, main>>

\* the diffs and the configs the caller holds: a diff of two files and a
\* diff of one, a config that ignores *.md and one that asks for a summary
CallerObjects ==
  [d1 |-> <<FileChange(<<"a", ".", "md">>, "modified", 0, 0, None, None),
            FileChange(<<"src", "/", "app", ".", "ts">>, "modified", 0, 0,
                       None, None)>>,
   d2 |-> <<FileChange(<<"a", ".", "md">>, "modified", 0, 0, None, None)>>,
   c1 |-> ReviewConfig(None, None, Some(<<<<"*", ".", "md">>>>)),
   c2 |-> ReviewConfig(Some("warning"), Some("summary"), None)]

\* the frame of a review call before the call is made
IdleCall ==
  [pc |-> "idle", structured |-> FALSE, diff |-> "d1", config |-> "c1",
   filteredDiff |-> <<>>, raw |-> None, result |-> None, thrown |-> None]

\* the most review calls in flight
MaxCalls == 2

\* the most pull requests
MaxPullRequests == 2

\* main() before its first await, and the platform it will talk to: the run's
\* number, each pull request's head commit (commits are numbered), the
\* commits named by the signed comments of each pull request, and what the
\* run has done so far: the pull requests hasAICommented was true for, the
\* ones model.review was called for, the comments postComment created; past
\* holds the runs that ended before
FirstRun ==
  [pc |-> "start", dryRun |-> FALSE, pullRequests |-> <<>>, at |-> 0,
   comments |-> 0, left |-> 0, rejections |-> {}, results |-> <<>>,
   exitCode |-> None, run |-> 1,
   head |-> [p \in 1..MaxPullRequests |-> 1],
   marks |-> [p \in 1..MaxPullRequests |-> {}],
   commented |-> {}, invoked |-> {},
   posted |-> [p \in 1..MaxPullRequests |-> 0],
   past |-> <<>>]

vars == <<reviewVars, otherVars>>

NoConfig == ReviewConfig(None, None, None)

\* the state after the adapter's construction, no call made yet
InitWith(structuredChoices) ==
  /\ structured \in structuredChoices
  /\ pc = "idle"
  /\ diff = <<>>
  /\ config = NoConfig
  /\ prompted = None
  /\ llmCalls = 0
  /\ raw = None
  /\ rejected = None
  /\ parser = "none"
  /\ result = None
  /\ thrown = None
  /\ warnings = <<>>
  /\ errors = <<>>
  /\ call = None
  /\ objects = CallerObjects
  /\ calls = [i \in 1..MaxCalls |-> IdleCall]
  /\ main = FirstRun

\* the comment review returns when no file is left (lines 69-77)
NoFilesComment ==
  AIComment("summary", None, None,
            <<"No files to review after applying ignore patterns.">>,
            Some("suggestion"))

\* review(d, c), up to its return without a model call (lines 64-77)
ReviewNoFiles(d, c) ==
  /\ pc = "idle"
  /\ Len(filterIgnoredFiles(d, c)) = 0
  /\ diff' = d
  /\ config' = c
  /\ result' = Some(<<NoFilesComment>>)
  /\ pc' = "done"
  /\ UNCHANGED <<structured, prompted, llmCalls, raw, rejected, parser, thrown,
                 warnings, errors>>
  /\ UNCHANGED otherVars

\* review(d, c), up to the await of callLLM (lines 64-89)
ReviewInvoke(d, c) ==
  /\ pc = "idle"
  /\ Len(filterIgnoredFiles(d, c)) # 0
  /\ diff' = d
  /\ config' = c
  /\ prompted' = Some(filterIgnoredFiles(d, c))
  /\ llmCalls' = llmCalls + 1
  /\ pc' = "calling"
  /\ UNCHANGED <<structured, raw, rejected, parser, result, thrown, warnings,
                 errors>>
  /\ UNCHANGED otherVars

\* callLLM resolves with text r: the rest of the try block (lines 91-93) and,
\* should the parsing throw, the catch block (lines 94-97)
CallLLMReturns(r) ==
  /\ pc = "calling"
  /\ raw' = Some(r)
  /\ \E out \in {ParseRaw(structured, r, config)} :
       /\ warnings' = warnings \o out.warned
       /\ IF out.threw
            THEN /\ errors' = Append(errors, "TypeError")
                 /\ thrown' = Some("TypeError")
                 /\ pc' = "failed"
                 /\ UNCHANGED <<parser, result>>
            ELSE /\ result' = Some(out.comments)
                 /\ parser' = out.parser
                 /\ pc' = "done"
                 /\ UNCHANGED <<errors, thrown>>
  /\ UNCHANGED <<structured, diff, config, prompted, llmCalls, rejected>>
  /\ UNCHANGED otherVars

\* the failures of the transport: authentication, network, non-2xx, timeout
TransportErrors == {"auth", "network", "http", "timeout"}

\* a variant that calls the transport again instead of rethrowing
CallLLMFailsRetrying(e) ==
  /\ pc = "calling"
  /\ llmCalls < 3
  /\ rejected' = Some(e)
  /\ errors' = Append(errors, e)
  /\ llmCalls' = llmCalls + 1
  /\ UNCHANGED <<structured, pc, diff, config, prompted, raw, parser, result,
                 thrown, warnings>>
  /\ UNCHANGED otherVars

\* callLLM rejects with e: the catch block logs and rethrows (lines 94-97)
CallLLMFails(e) ==
  /\ pc = "calling"
  /\ rejected' = Some(e)
  /\ errors' = Append(errors, e)
  /\ thrown' = Some(e)
  /\ pc' = "failed"
  /\ UNCHANGED <<structured, diff, config, prompted, llmCalls, raw, parser,
                 result, warnings>>
  /\ UNCHANGED otherVars


----------------------------------------------------------------------------
(* Inputs *)

\* all sequences over S of length at most n
SeqsUpTo(S, n) == UNION {[1..k -> S] : k \in 0..n}

README_md  == <<"README", ".", "md">>
a_md       == <<"a", ".", "md">>
src_app_ts == <<"src", "/", "app", ".", "ts">>
StarMd     == <<"*", ".", "md">>

Files ==
  {FileChange(name, "modified", 0, 0, None, None) : name \in {README_md, a_md, src_app_ts}}

\* the last pattern is *app.ts
IgnoreChoices ==
  {None, Some(<<>>), Some(<<StarMd>>), Some(<<src_app_ts>>),
   Some(<<StarMd, src_app_ts>>), Some(<<<<"*", "app", ".", "ts">>>>)}

\* a structured comment as the model is asked to write it; suggestion is
\* optional
StructuredComment(file, line, severity, category, confidence, title, explanation, suggestion) ==
  JObj(<<Member(<<"file">>, JStr(file)),
         Member(<<"line">>, JNum(line * Scale)),
         Member(<<"severity">>, JStr(<<severity>>)),
         Member(<<"category">>, JStr(<<category>>)),
         Member(<<"confidence">>, JNum(confidence)),
         Member(<<"title">>, JStr(title)),
         Member(<<"explanation">>, JStr(explanation))>>
       \o (IF suggestion = None THEN <<>>
           ELSE <<Member(<<"suggestion">>, JStr(suggestion[1]))>>))

\* a StructuredReviewResponse; summary is optional
StructuredReviewResponse(summary, comments) ==
  JObj((IF summary = None THEN <<>>
        ELSE <<Member(<<"summary">>, JStr(summary[1]))>>)
       \o <<Member(<<"comments">>, JArr(comments))>>)


\* the most files in a diff
MaxFiles == 2

Diffs == SeqsUpTo(Files, MaxFiles)

Configs ==
  {ReviewConfig(sev, style, ign) :
     sev \in {None, Some("suggestion"), Some("warning"), Some("error")},
     style \in {None, Some("inline"), Some("summary")},
     ign \in IgnoreChoices}

GoodComment ==
  StructuredComment(src_app_ts, 5, "warning", "bug", (9 * Scale) \div 10,
                    <<"Missing", " ", "null", " ", "check">>,
                    <<"use", " ", "a", " ", "check">>, Some(<<"fix">>))

ValidText ==
  Stringify(StructuredReviewResponse(Some(<<"looks", " ", "good">>),
                                     <<GoodComment>>))

\* {"summary":"","comments":[]}
EmptyResponseText == Stringify(StructuredReviewResponse(Some(<<>>), <<>>))

\* {"comments":[{"wrong":"fields"}]}
WrongFieldsText ==
  Stringify(JObj(<<Member(<<"comments">>,
                          JArr(<<JObj(<<Member(<<"wrong">>,
                                               JStr(<<"fields">>))>>)>>))>>))

\* {"comments":[{"title":"see a:5 - fix"}]}: a schema violation whose text
\* holds an inline comment
WrongWithInlineText ==
  Stringify(JObj(<<Member(<<"comments">>,
                          JArr(<<JObj(<<Member(<<"title">>,
                                 JStr(<<"see", " ", "a", ":", "5", " ", "-",
                                        " ", "fix">>))>>)>>))>>))

\* src/app.ts:5 <em dash> Missing null check
InlineText ==
  src_app_ts \o <<":", "5", " ", EmDash, " ", "Missing", " ", "null", " ", "check">>

\* The texts callLLM returns: structured responses, valid and not, with and
\* without white space around them, JSON of other shapes, broken JSON, free
\* text.
RawTexts ==
  {ValidText,
   <<" ", NL>> \o ValidText \o <<NL>>,
   <<NBSP>> \o ValidText,
   EmptyResponseText,
   WrongFieldsText,
   WrongWithInlineText,
   Stringify(JObj(<<Member(<<"comments">>, JArr(<<JNull>>))>>)),
   Stringify(JObj(<<Member(<<"summary">>, JNum(5 * Scale)),
                    Member(<<"comments">>, JArr(<<>>))>>)),
   Stringify(JObj(<<Member(<<"comments">>, JNum(5 * Scale))>>)),
   <<"{", "}">>,
   <<"[", "]">>,
   SubSeq(ValidText, 1, 6),
   <<"{">> \o InlineText,
   <<"looks", " ", "good">>,
   InlineText,
   <<>>,
   <<" ", NL>>}

\* Structured comments: every severity, confidences at (0.6), just below
\* (0.59999) and above the threshold, suggestions absent, empty and not.  No
\* two share a file and a line.
Comment1 ==
  StructuredComment(src_app_ts, 1, "critical", "bug", (9 * Scale) \div 10,
                    <<"Missing", " ", "null", " ", "check">>,
                    <<"use", " ", "a", " ", "check">>, Some(<<"fix">>))
Comment2 ==
  StructuredComment(src_app_ts, 2, "warning", "security", (6 * Scale) \div 10,
                    <<"x">>, <<"see", " ", "y">>, None)
Comment3 ==
  StructuredComment(a_md, 3, "suggestion", "style", (6 * Scale) \div 10,
                    <<"use", " ", "const">>, <<"y">>, Some(<<>>))
Comment4 ==
  StructuredComment(a_md, 4, "nitpick", "testing", (9 * Scale) \div 10,
                    <<"x">>, <<"y">>, None)
Comment5 ==
  StructuredComment(src_app_ts, 5, "suggestion", "performance",
                    (6 * Scale) \div 10 - Scale \div 100000,
                    <<"x">>, <<"y">>, Some(<<"fix">>))
Comment6 ==
  StructuredComment(README_md, 6, "critical", "architecture",
                    (6 * Scale) \div 10 - Scale \div 100000,
                    <<"x">>, <<"y">>, None)
Comment7 ==
  StructuredComment(README_md, 7, "nitpick", "style", (6 * Scale) \div 10,
                    <<"x">>, <<"y">>, Some(<<"use", " ", "const">>))
Comment8 ==
  StructuredComment(src_app_ts, 8, "warning", "bug", Scale,
                    <<"x">>, <<"y">>, Some(<<>>))

CommentChoices ==
  {Comment1, Comment2, Comment3, Comment4, Comment5, Comment6, Comment7,
   Comment8}

\* the most comments in a structured response
MaxComments == 2

SummaryChoices == {None, Some(<<>>), Some(<<"looks", " ", "good">>)}

\* the texts of the valid structured responses
StructuredTexts ==
  {Stringify(StructuredReviewResponse(summary, comments)) :
     summary \in SummaryChoices,
     comments \in SeqsUpTo(CommentChoices, MaxComments)}

\* config.severity: unset, the three values of ReviewConfig, and the two
\* values of the ranking that the cast of line 249 lets through
NormalizerConfigs ==
  {ReviewConfig(sev, None, ign) :
     sev \in {None, Some("suggestion"), Some("warning"), Some("error"),
              Some("critical"), Some("nitpick")},
     ign \in {None, Some(<<StarMd>>)}}

NormalizerDiffs == {<<FileChange(a_md, "modified", 0, 0, None, None)>>}

\* the longest of the short texts
MaxTextLen == 4

\* every text of at most MaxTextLen characters over a path character, the
\* colon, a digit, two dashes and two white-space characters
ShortTexts == SeqsUpTo({"a", ":", "1", "-", EnDash, " ", NL}, MaxTextLen)

\* An occurrence of <path>:<line> <dash> <text>: lead and gap are the white
\* space before and after the dash.
Occurrence(path, line, lead, dash, gap, text) ==
  [path |-> path, line |-> line, lead |-> lead, dash |-> dash, gap |-> gap,
   text |-> text]

OccurrenceText(o) ==
  o.path \o <<":">> \o o.line \o o.lead \o <<o.dash>> \o o.gap \o o.text

Occurrences ==
  {Occurrence(src_app_ts, <<"5">>, <<" ">>, EmDash, <<" ">>,
              <<"Missing", " ", "null", " ", "check">>),
   Occurrence(<<"a">>, <<"1", "0">>, <<>>, "-", <<>>, <<"x">>),
   Occurrence(README_md, <<"7">>, <<" ">>, EnDash, <<" ">>,
              <<"use", " ", "const", " ">>),
   Occurrence(<<"src", "/", "a", "-", "x", ".", "ts">>, <<"3">>, <<" ">>, "-",
              <<" ", " ">>, <<"fix">>),
   Occurrence(a_md, <<"4">>, <<" ">>, "-", <<" ">>,
              <<"see", " ", "x", ":", "2">>),
   Occurrence(a_md, <<"2">>, <<" ">>, "-", <<>>, <<>>)}

\* the most occurrences in a response
MaxOccurrences == 2

OccurrenceLists == SeqsUpTo(Occurrences, MaxOccurrences) \ {<<>>}

\* the response made of the occurrences of a list, one to a line
RECURSIVE Render(_)
Render(occs) ==
  IF Len(occs) = 1 THEN OccurrenceText(occs[1])
  ELSE OccurrenceText(Head(occs)) \o <<NL>> \o Render(Tail(occs))

\* each list of occurrences with the response made of it
OccurrenceTable ==
  {[list |-> l, text |-> Render(l)] : l \in OccurrenceLists}

LegacyTexts ==
  ShortTexts \cup {e.text : e \in OccurrenceTable}
    \cup {<<"looks", " ", "good">>, WrongFieldsText}

LegacyConfigs ==
  {ReviewConfig(sev, style, ign) :
     sev \in {None, Some("warning")},
     style \in {None, Some("inline"), Some("summary")},
     ign \in {None, Some(<<StarMd>>)}}

Init == InitWith(BOOLEAN)

Next ==
  \/ \E d \in Diffs, c \in Configs : ReviewNoFiles(d, c)
  \/ \E d \in Diffs, c \in Configs : ReviewInvoke(d, c)
  \/ \E r \in RawTexts : CallLLMReturns(r)
  \/ \E e \in TransportErrors : CallLLMFails(e)

Spec == Init /\ [][Next]_vars

\* A structured-capable adapter whose model answers with valid structured
\* responses.
InitNormalizer == InitWith({TRUE})

NextNormalizer ==
  \/ \E d \in NormalizerDiffs, c \in NormalizerConfigs : ReviewNoFiles(d, c)
  \/ \E d \in NormalizerDiffs, c \in NormalizerConfigs : ReviewInvoke(d, c)
  \/ \E r \in StructuredTexts : CallLLMReturns(r)
  \/ \E e \in TransportErrors : CallLLMFails(e)

SpecNormalizer == InitNormalizer /\ [][NextNormalizer]_vars

\* the severity check of the Normalizer applied to the comments cs, and
\* applied once more to the comments it let through
SeverityFilterCall(cs, c) ==
  /\ call = None
  /\ \E ret \in {severityFilter(cs, c)} :
       call' = Some([fn |-> "severityFilter", arg |-> <<cs, c>>, ret |-> ret,
                     again |-> severityFilter(ret, c)])
  /\ UNCHANGED <<reviewVars, objects, calls, main>>

\* the thresholds: none, the three of ReviewConfig and the two other
\* severities of a comment
FilterConfigs ==
  {ReviewConfig(sev, None, None) :
     sev \in {None, Some("suggestion"), Some("warning"), Some("error"),
              Some("critical"), Some("nitpick")}}

NextFilter ==
  \E cs \in SeqsUpTo(CommentChoices, MaxComments), c \in FilterConfigs :
    SeverityFilterCall(cs, c)

SpecFilter == InitNormalizer /\ [][NextFilter]_vars

\* An adapter without structured output, whose every response goes to the
\* legacy parser.
InitLegacy == InitWith({FALSE})

NextLegacy ==
  \/ \E d \in NormalizerDiffs, c \in LegacyConfigs : ReviewNoFiles(d, c)
  \/ \E d \in NormalizerDiffs, c \in LegacyConfigs : ReviewInvoke(d, c)
  \/ \E r \in LegacyTexts : CallLLMReturns(r)
  \/ \E e \in TransportErrors : CallLLMFails(e)

SpecLegacy == InitLegacy /\ [][NextLegacy]_vars

----------------------------------------------------------------------------
(* Calls of the functions src/schemas/validate.ts exports.  The functions   *)
(* keep no state, so one call from the initial state shows all they do.     *)

\* validateStructuredResponse(v)
ValidateCall(v) ==
  /\ call = None
  /\ \E ret \in {validateStructuredResponse(v)} :
       call' = Some([fn |-> "validateStructuredResponse", arg |-> v, ret |-> ret])
  /\ UNCHANGED <<reviewVars, objects, calls, main>>

\* parseStructuredResponse(t)
ParseCall(t) ==
  /\ call = None
  /\ \E ret \in {parseStructuredResponse(t)} :
       call' = Some([fn |-> "parseStructuredResponse", arg |-> t, ret |-> ret])
  /\ UNCHANGED <<reviewVars, objects, calls, main>>

\* looksLikeStructuredResponse(t)
LooksLikeCall(t) ==
  /\ call = None
  /\ \E ret \in {looksLikeStructuredResponse(t)} :
       call' = Some([fn |-> "looksLikeStructuredResponse", arg |-> t, ret |-> ret])
  /\ UNCHANGED <<reviewVars, objects, calls, main>>

\* obj with the member key set to val, and obj without the member key
WithMember(obj, key, val) == JObj(SetMember(obj.v, <<key>>, val))

WithoutMember(obj, key) == JObj(SelectSeq(obj.v, LAMBDA m : m.k # <<key>>))

\* values of every JSON type: null, a boolean, numbers (0, 1, -1, 1.5, 0.5,
\* 1.00001, -0.00001), strings, an array, an object
OddValues ==
  {JNull, JLit("true"), JNum(0), JNum(Scale), JNum(0 - Scale),
   JNum(Scale + Scale \div 2), JNum(Scale \div 2), JNum(Scale + 1),
   JNum(0 - 1), JStr(<<>>), JStr(<<"x">>), JStr(<<"critical">>),
   JStr(<<"bug">>), JStr(<<"error">>), JStr(<<"1">>),
   JStr(<<Quote, "x", Quote, Backslash, NL>>), JArr(<<>>), JObj(<<>>)}

\* the decoded values: values that are no objects, objects without a
\* comments array, responses with one entry of any kind (a value that is
\* no comment, a comment, Comment1 with one member removed or replaced), and
\* responses with any summary and up to MaxComments entries, valid or not
DecodedValues ==
  LET CommentKeys ==
        {"file", "line", "severity", "category", "confidence", "title",
         "explanation", "suggestion"}
      VariedComments ==
        {WithoutMember(Comment1, k) : k \in CommentKeys}
          \cup {WithMember(Comment1, k, v) : k \in CommentKeys, v \in OddValues}
      Entries == VariedComments \cup OddValues \cup CommentChoices
  IN
  OddValues
    \cup {JObj(<<Member(<<"comments">>, v)>>) : v \in OddValues}
    \cup {JObj(<<Member(<<"summary">>, JStr(<<"x">>))>>)}
    \cup {JObj(<<Member(<<"comments">>, JArr(<<e>>))>>) : e \in Entries}
    \cup {JObj(<<Member(<<"summary">>, v), Member(<<"comments">>, JArr(cs))>>) :
            v \in OddValues,
            cs \in SeqsUpTo({Comment1, Comment3, JNull,
                             WithoutMember(Comment2, "file")}, MaxComments)}
    \cup {StructuredReviewResponse(summary, comments) :
            summary \in SummaryChoices,
            comments \in SeqsUpTo(CommentChoices, 1)}

\* the texts: the encodings of the decoded values, bare and with white space
\* around them, and the texts of the review calls
SchemaTexts ==
  {Stringify(v) : v \in DecodedValues}
    \cup {<<" ", NL>> \o Stringify(v) \o <<NL>> : v \in OddValues}
    \cup RawTexts

NextSchema ==
  \/ \E v \in DecodedValues : ValidateCall(v)
  \/ \E t \in SchemaTexts : ParseCall(t)
  \/ \E t \in SchemaTexts : LooksLikeCall(t)

SpecSchema == InitNormalizer /\ [][NextSchema]_vars

----------------------------------------------------------------------------
(* Calls of parseUnifiedDiff, which keeps no state either                   *)

ParseUnifiedDiffCall(files) ==
  /\ call = None
  /\ \E ret \in {parseUnifiedDiff(files)} :
       call' = Some([fn |-> "parseUnifiedDiff", arg |-> files,
                     after |-> FilesAfter(files), ret |-> ret])
  /\ UNCHANGED <<reviewVars, objects, calls, main>>

\* A line of a hunk: added ("add"), removed ("del"), context ("ctx"), or the
\* marker that the line before it ends its file without a line break
\* ("nonl").
PatchLine(kind, content) == [kind |-> kind, content |-> content]

\* added lines x, the empty line and ++i; removed lines old and -- x
LineChoices ==
  {PatchLine("add", <<"x">>), PatchLine("add", <<>>),
   PatchLine("add", <<"+", "+", "i">>),
   PatchLine("del", <<"old">>), PatchLine("del", <<"-", "-", " ", "x">>),
   PatchLine("ctx", <<"y">>), PatchLine("nonl", <<>>)}

\* the most lines in a hunk
MaxHunkLines == 3

\* A marker follows a line that is the last of its file: after it come only
\* lines of the other file (and their marker).
WellFormedBody(body) ==
  /\ body # <<>>
  /\ \A j \in 1..Len(body) :
       body[j].kind = "nonl" =>
         /\ j > 1
         /\ body[j - 1].kind # "nonl"
         /\ \A k \in (j + 1)..Len(body) :
              \/ body[j - 1].kind = "del" /\ body[k].kind \in {"add", "nonl"}
              \/ body[j - 1].kind = "add" /\ body[k].kind \in {"del", "nonl"}

\* the lines of body[1..j] of the kinds
Count(body, j, kinds) == Cardinality({k \in 1..j : body[k].kind \in kinds})

\* A hunk that begins at line newStart of the new file; explicit: the
\* header holds a length of 1 (it may leave it out).
Hunk(newStart, explicit, body) ==
  [newStart |-> newStart, explicit |-> explicit, body |-> body]

\* the lines of a hunk as a diff tool writes them; annotated: with the
\* number of its line in the new file after every added line
HunkLines(h, annotated) ==
  LET oldLen == Count(h.body, Len(h.body), {"ctx", "del"})
      newLen == Count(h.body, Len(h.body), {"ctx", "add"})
      Range(len) ==
        NatText(IF len = 0 THEN h.newStart - 1 ELSE h.newStart)
          \o (IF len = 1 /\ ~h.explicit THEN <<>> ELSE <<",">> \o NatText(len))
      LineText(l) ==
        CASE l.kind = "add" -> <<"+">> \o l.content
          [] l.kind = "del" -> <<"-">> \o l.content
          [] l.kind = "ctx" -> <<" ">> \o l.content
          [] l.kind = "nonl" -> <<Backslash, " ", "No newline at end of file">>
  IN  <<<<"@", "@", " ", "-">> \o Range(oldLen) \o <<" ", "+">>
          \o Range(newLen) \o <<" ", "@", "@">>>>
        \o [j \in 1..Len(h.body) |->
              LineText(h.body[j])
                \o (IF annotated /\ h.body[j].kind = "add"
                      THEN <<" // LINE_NUMBER: ">>
                             \o NatText(h.newStart
                                          + Count(h.body, j - 1, {"ctx", "add"}))
                      ELSE <<>>)]

\* the text of a patch of one or two hunks; header: the --- and +++ lines
\* of the file come first
PatchText(p, annotated) ==
  Join((IF p.header
          THEN <<<<"-", "-", "-", " ", "a", "/">> \o src_app_ts,
                 <<"+", "+", "+", " ", "b", "/">> \o src_app_ts>>
          ELSE <<>>)
         \o HunkLines(p.hunks[1], annotated)
         \o (IF Len(p.hunks) = 2 THEN HunkLines(p.hunks[2], annotated)
             ELSE <<>>),
       <<NL>>)

\* the well-formed patches: one hunk of up to MaxHunkLines lines at line 1
\* or at line 10, or a hunk of one line at line 1 and another at line 10
Patches ==
  LET Bodies(n) == {b \in SeqsUpTo(LineChoices, n) : WellFormedBody(b)}
  IN  {[header |-> FALSE, hunks |-> <<Hunk(1, FALSE, b)>>] : b \in Bodies(MaxHunkLines)}
        \cup {[header |-> TRUE, hunks |-> <<Hunk(10, TRUE, b)>>] :
                b \in Bodies(MaxHunkLines)}
        \cup {[header |-> FALSE,
                hunks |-> <<Hunk(1, TRUE, b1), Hunk(10, FALSE, b2)>>] :
                b1 \in Bodies(1), b2 \in Bodies(1)}

\* files of every status, without a patch, with an empty patch, with a
\* patch that ends in a line break, with lines outside a hunk
PlainFiles ==
  {FileChange(a_md, status, 1, 2, patch,
              IF status = "renamed" THEN Some(README_md) ELSE None) :
     status \in {"added", "modified", "deleted", "renamed"},
     patch \in {None, Some(<<>>),
                Some(<<"@", "@", " ", "-", "1", " ", "+", "1", "," , "2", " ",
                       "@", "@", NL, "-", "old", NL, "+", "x", NL, "+", NL>>),
                Some(<<"+", "x", NL, " ", "y", NL, "-", "old">>)}}

\* the lists of files: one file with a well-formed patch, and up to two
\* plain files
FileLists ==
  {<<FileChange(src_app_ts, "modified", 1, 0, Some(PatchText(p, FALSE)), None)>> :
     p \in Patches}
    \cup SeqsUpTo(PlainFiles, 2)

NextAnnotator == \E files \in FileLists : ParseUnifiedDiffCall(files)

SpecAnnotator == InitNormalizer /\ [][NextAnnotator]_vars

\* parseUnifiedDiff(files) for a list that ends with a file of patch p
ParsePatchCall(before, p) ==
  /\ call = None
  /\ \E files \in {Append(before,
                           FileChange(src_app_ts, "modified", 1, 0,
                                      Some(PatchText(p, FALSE)), None))} :
       \E ret \in {parseUnifiedDiff(files)} :
         call' = Some([fn |-> "parseUnifiedDiff", arg |-> files,
                       after |-> FilesAfter(files), ret |-> ret, patch |-> p])
  /\ UNCHANGED <<reviewVars, objects, calls, main>>

\* the patch of the test "should handle multiple hunks correctly"
TwoHunksPatch ==
  [header |-> FALSE,
   hunks |-> <<Hunk(1, TRUE,
                    <<PatchLine("ctx", <<"y">>), PatchLine("del", <<"old">>),
                      PatchLine("add", <<"x">>), PatchLine("add", <<"x">>),
                      PatchLine("ctx", <<"y">>), PatchLine("ctx", <<"y">>)>>),
               Hunk(20, TRUE,
                    <<PatchLine("ctx", <<"y">>), PatchLine("del", <<"old">>),
                      PatchLine("add", <<"x">>), PatchLine("add", <<"x">>),
                      PatchLine("add", <<"x">>)>>)>>]

\* patches whose last hunk, of up to MaxHunkLines lines at line 20, stands
\* alone or after a hunk of one line at line 1 or at line 5
HunkPatches ==
  LET Bodies(n) == {b \in SeqsUpTo(LineChoices, n) : WellFormedBody(b)}
  IN  {[header |-> FALSE, hunks |-> <<Hunk(20, TRUE, b)>>] :
         b \in Bodies(MaxHunkLines)}
        \cup {[header |-> FALSE,
                hunks |-> <<Hunk(newStart, TRUE, b1), Hunk(20, TRUE, b2)>>] :
                newStart \in {1, 5}, b1 \in Bodies(1),
                b2 \in Bodies(MaxHunkLines)}
        \cup {TwoHunksPatch}

\* the files before the last: none, or a file with a patch of its own
FilesBefore ==
  {<<>>,
   <<FileChange(a_md, "modified", 2, 1,
                Some(<<"@", "@", " ", "-", "1", " ", "+", "1", "," , "2", " ",
                       "@", "@", NL, "-", "old", NL, "+", "x", NL, "+", "x">>),
                None)>>}

NextHunks == \E before \in FilesBefore, p \in HunkPatches : ParsePatchCall(before, p)

SpecHunks == InitNormalizer /\ [][NextHunks]_vars

----------------------------------------------------------------------------
(* Review calls in flight together.  A call holds its arguments by          *)
(* reference; its frame is suspended at the await of callLLM, where other   *)
(* calls may run.  BaseReviewModel has no fields, so an adapter is known by *)
(* what its supportsStructuredOutput() returns.                             *)

\* a variant that filters the caller's array in place
ObjectsAfterFilterInPlace(objs, d, c) ==
  [objs EXCEPT ![d] = filterIgnoredFiles(objs[d], objs[c])]

\* the caller's objects after filterIgnoredFiles: Array.prototype.filter
\* makes a new array
ObjectsAfterFilter(objs, d, c) == objs

\* call i: review(d, c) on an adapter, up to its return without a model
\* call or up to the await of callLLM
ReviewBegins(i, s, d, c) ==
  /\ calls[i].pc = "idle"
  /\ \E filteredDiff \in {filterIgnoredFiles(objects[d], objects[c])} :
       calls' = [calls EXCEPT ![i] =
                   [pc |-> IF filteredDiff = <<>> THEN "done" ELSE "calling",
                    structured |-> s, diff |-> d, config |-> c,
                    filteredDiff |-> filteredDiff, raw |-> None,
                    result |-> IF filteredDiff = <<>>
                                 THEN Some(<<NoFilesComment>>) ELSE None,
                    thrown |-> None]]
  /\ objects' = ObjectsAfterFilter(objects, d, c)
  /\ UNCHANGED <<reviewVars, call, main>>

\* call i: callLLM resolves with text r
ModelResolves(i, r) ==
  /\ calls[i].pc = "calling"
  /\ \E out \in {ParseRaw(calls[i].structured, r, objects[calls[i].config])} :
       /\ warnings' = warnings \o out.warned
       /\ errors' = IF out.threw THEN Append(errors, "TypeError") ELSE errors
       /\ calls' = [calls EXCEPT
                      ![i].raw = Some(r),
                      ![i].pc = IF out.threw THEN "failed" ELSE "done",
                      ![i].result = IF out.threw THEN None ELSE Some(out.comments),
                      ![i].thrown = IF out.threw THEN Some("TypeError") ELSE None]
  /\ UNCHANGED <<structured, pc, diff, config, prompted, llmCalls, raw,
                 rejected, parser, result, thrown, call, objects, main>>

\* call i: callLLM rejects with e
ModelRejects(i, e) ==
  /\ calls[i].pc = "calling"
  /\ errors' = Append(errors, e)
  /\ calls' = [calls EXCEPT ![i].pc = "failed", ![i].thrown = Some(e)]
  /\ UNCHANGED <<structured, pc, diff, config, prompted, llmCalls, raw,
                 rejected, parser, result, thrown, warnings, call, objects,
                 main>>

NextConcurrent ==
  \/ \E i \in 1..MaxCalls, s \in BOOLEAN, d \in {"d1", "d2"}, c \in {"c1", "c2"} :
       ReviewBegins(i, s, d, c)
  \/ \E i \in 1..MaxCalls,
        r \in {ValidText, WrongFieldsText, InlineText, <<"looks", " ", "good">>} :
       ModelResolves(i, r)
  \/ \E i \in 1..MaxCalls, e \in {"timeout"} : ModelRejects(i, e)

SpecConcurrent == InitNormalizer /\ [][NextConcurrent]_vars

----------------------------------------------------------------------------
(* src/index.ts: main(), from the call of getPullRequests on.  Its places   *)
(* are its awaits: "start" (getPullRequests), "checking" (hasAICommented),  *)
(* "diffing" (getPullRequestDiff), "reviewing" (model.review), "posting"    *)
(* (postComment); "returned" and "finished" are its two ends, "exited" is   *)
(* process.exit(1) in the catch block around the whole body.                *)

\* a ReviewResult; error is optional
ReviewResult(prId, commentsPosted, status, error) ==
  [prId |-> prId, commentsPosted |-> commentsPosted, status |-> status,
   error |-> error]

\* results.push(r) and the step of the for loop to the next pull request,
\* or past the loop to the summary
Pushed(m, r) ==
  [m EXCEPT !.results = Append(m.results, r),
            !.pc = IF m.at = Len(m.pullRequests) THEN "finished" ELSE "checking",
            !.at = IF m.at = Len(m.pullRequests) THEN m.at ELSE m.at + 1]

\* getPullRequests resolves with n pull requests, numbered from 1
GetPullRequestsReturns(n, dryRun) ==
  /\ main.pc = "start"
  /\ main' = [main EXCEPT !.dryRun = dryRun,
                          !.pullRequests = [k \in 1..n |-> k],
                          !.at = IF n = 0 THEN 0 ELSE 1,
                          !.pc = IF n = 0 THEN "returned" ELSE "checking"]
  /\ UNCHANGED <<reviewVars, call, objects, calls>>

\* hasAICommented resolves
HasAICommentedReturns(hasCommented) ==
  /\ main.pc = "checking"
  /\ main' = IF hasCommented
               THEN Pushed([main EXCEPT
                              !.commented = @ \cup {main.pullRequests[main.at]}],
                           ReviewResult(main.pullRequests[main.at], 0,
                                        "skipped", None))
               ELSE [main EXCEPT !.pc = "diffing"]
  /\ UNCHANGED <<reviewVars, call, objects, calls>>

\* hasAICommented rejects: the await is outside the try block of the loop,
\* so the catch block of main logs the error and ends the process
HasAICommentedFails(e) ==
  /\ main.pc = "checking"
  /\ main' = [main EXCEPT
                !.rejections = main.rejections \cup {main.pullRequests[main.at]},
                !.pc = "exited", !.exitCode = Some(1)]
  /\ errors' = Append(errors, e)
  /\ UNCHANGED <<structured, pc, diff, config, prompted, llmCalls, raw,
                 rejected, parser, result, thrown, warnings, call, objects,
                 calls>>

\* getPullRequestDiff resolves; parseUnifiedDiff is applied to the diff and
\* model.review is called
GetPullRequestDiffReturns ==
  /\ main.pc = "diffing"
  /\ main' = [main EXCEPT !.pc = "reviewing",
                          !.invoked = @ \cup {main.pullRequests[main.at]}]
  /\ UNCHANGED <<reviewVars, call, objects, calls>>

\* model.review resolves with n comments: in a dry run they are printed,
\* otherwise posted one by one
ReviewReturns(n) ==
  /\ main.pc = "reviewing"
  /\ main' = IF main.dryRun \/ n = 0
               THEN Pushed(main, ReviewResult(main.pullRequests[main.at], n,
                                              "success", None))
               ELSE [main EXCEPT !.pc = "posting", !.comments = n, !.left = n]
  /\ UNCHANGED <<reviewVars, call, objects, calls>>

\* src/platforms/github.ts, postComment (lines 117-151): the comment made
\* on pull request p carries the signature and the head commit of p
postComment(m, p) ==
  [m EXCEPT !.marks[p] = @ \cup {m.head[p]}, !.posted[p] = @ + 1]

\* src/platforms/github.ts, hasAICommented (lines 159-202): a signed comment
\* of pull request p names its head commit.  The text the model wrote is
\* taken to hold no signature and no SHA marker of its own.
hasAICommented(m, p) == m.head[p] \in m.marks[p]

\* a variant that looks for any signed comment, whatever its commit
hasAICommentedAtAnyCommit(m, p) == m.marks[p] # {}

\* postComment resolves
PostCommentReturns ==
  /\ main.pc = "posting"
  /\ \E m \in {postComment(main, main.pullRequests[main.at])} :
       main' = IF m.left = 1
                 THEN Pushed([m EXCEPT !.left = 0],
                             ReviewResult(m.pullRequests[m.at], m.comments,
                                          "success", None))
                 ELSE [m EXCEPT !.left = m.left - 1]
  /\ UNCHANGED <<reviewVars, call, objects, calls>>

\* getPullRequestDiff, model.review or postComment rejects: the catch block
\* of the loop
ProcessingFails(e) ==
  /\ main.pc \in {"diffing", "reviewing", "posting"}
  /\ main' = Pushed([main EXCEPT
                       !.rejections =
                         main.rejections \cup {main.pullRequests[main.at]}],
                    ReviewResult(main.pullRequests[main.at], 0, "failure",
                                 Some(e)))
  /\ errors' = Append(errors, e)
  /\ UNCHANGED <<structured, pc, diff, config, prompted, llmCalls, raw,
                 rejected, parser, result, thrown, warnings, call, objects,
                 calls>>

NextMain ==
  \/ \E n \in 0..MaxPullRequests, dryRun \in BOOLEAN :
       GetPullRequestsReturns(n, dryRun)
  \/ \E hasCommented \in BOOLEAN : HasAICommentedReturns(hasCommented)
  \/ \E e \in TransportErrors : HasAICommentedFails(e)
  \/ GetPullRequestDiffReturns
  \/ \E n \in 0..MaxComments : ReviewReturns(n)
  \/ PostCommentReturns
  \/ \E e \in TransportErrors : ProcessingFails(e)

SpecMain == InitNormalizer /\ [][NextMain]_vars

----------------------------------------------------------------------------
(* Runs of main(), one after the other, against the GitHub platform         *)

\* the most runs, and the most commits of a pull request
MaxRuns == 2

MaxCommits == 2

\* what is kept of a run once it has ended
RunRecord(m) ==
  [dryRun |-> m.dryRun, head |-> m.head, results |-> m.results,
   commented |-> m.commented, invoked |-> m.invoked, posted |-> m.posted]

\* hasAICommented resolves with what the pull request's comments hold
GithubHasAICommentedReturns ==
  /\ main.pc = "checking"
  /\ HasAICommentedReturns(hasAICommented(main, main.pullRequests[main.at]))

\* the process has ended and diff-hound is started once more
RunAgain ==
  /\ main.pc \in {"returned", "finished", "exited"}
  /\ main.run < MaxRuns
  /\ main' = [FirstRun EXCEPT !.run = main.run + 1, !.head = main.head,
                              !.marks = main.marks,
                              !.past = Append(main.past, RunRecord(main))]
  /\ UNCHANGED <<reviewVars, call, objects, calls>>

\* between two runs a commit is pushed to pull request p
HeadMoves(p) ==
  /\ main.pc = "start"
  /\ main.head[p] < MaxCommits
  /\ main' = [main EXCEPT !.head[p] = @ + 1]
  /\ UNCHANGED <<reviewVars, call, objects, calls>>

NextRuns ==
  \/ \E n \in 0..MaxPullRequests, dryRun \in BOOLEAN :
       GetPullRequestsReturns(n, dryRun)
  \/ GithubHasAICommentedReturns
  \/ HasAICommentedFails("network")
  \/ GetPullRequestDiffReturns
  \/ \E n \in 0..MaxComments : ReviewReturns(n)
  \/ PostCommentReturns
  \/ ProcessingFails("network")
  \/ RunAgain
  \/ \E p \in 1..MaxPullRequests : HeadMoves(p)

SpecRuns == InitNormalizer /\ [][NextRuns]_vars

----------------------------------------------------------------------------
(* src/config/index.ts and src/cli/index.ts: the configuration of a run.    *)
(* Objects are JSON objects; a string is one atom.                          *)

Str(s) == JStr(<<s>>)

True == JLit("true")

False == JLit("false")

NaN == JLit("NaN")

\* JavaScript's truthiness
IsTruthy(v) ==
  CASE v.t = "str" -> Len(v.v) > 0
    [] v.t = "num" -> v.v # 0
    [] v.t = "lit" -> v.v = "true"
    [] v.t = "undef" -> FALSE
    [] OTHER -> TRUE

\* a || b
Or(a, b) == IF IsTruthy(a) THEN a ELSE b

\* the members ms set on the members target, in their order
RECURSIVE Assign(_, _)
Assign(target, ms) ==
  IF ms = <<>> THEN target
  ELSE Assign(SetMember(target, Head(ms).k, Head(ms).val), Tail(ms))

\* { ...a, ...b }
Spread(a, b) == JObj(Assign(a.v, b.v))

\* config/index.ts, lines 9-18 (ignoreFiles, an empty array, included)
DEFAULT_CONFIG ==
  JObj(<<Member(<<"provider">>, Str("openai")),
         Member(<<"model">>, Str("gpt-4o")),
         Member(<<"gitPlatform">>, Str("github")),
         Member(<<"commentStyle">>, Str("inline")),
         Member(<<"dryRun">>, False),
         Member(<<"verbose">>, False),
         Member(<<"severity">>, Str("suggestion")),
         Member(<<"ignoreFiles">>, JArr(<<>>))>>)

\* A file: the extension of its name and what JSON.parse or yaml.load makes
\* of its content (None when the parser throws).
File(ext, content) == [ext |-> ext, content |-> content]

\* no file at a path
Missing == [ext |-> "", content |-> None]

\* loadConfigFromFile (lines 52-71): the config and the console.error calls
loadConfigFromFile(file) ==
  IF file.ext \notin {"json", "yml", "yaml"}
    THEN [config |-> DEFAULT_CONFIG, errors |-> <<"Unsupported config file format">>]
  ELSE IF file.content = None
    THEN [config |-> DEFAULT_CONFIG, errors |-> <<"Error loading config">>]
  ELSE [config |-> Spread(DEFAULT_CONFIG, file.content[1]), errors |-> <<>>]

\* loadConfig (lines 25-45); fs holds the file at configPath, the file
\* .aicodeconfig.json and the file .aicode.yml of the working directory
loadConfig(configPath, fs) ==
  IF IsTruthy(configPath) /\ fs.given # Missing
    THEN loadConfigFromFile(fs.given)
  ELSE IF fs.json # Missing THEN loadConfigFromFile(fs.json)
  ELSE IF fs.yml # Missing THEN loadConfigFromFile(fs.yml)
  ELSE [config |-> DEFAULT_CONFIG, errors |-> <<>>]

validProviders == <<"openai">>

validPlatforms == <<"github">>

configSeverities == <<"suggestion", "warning", "error">>

\* validateConfig (lines 79-117): the final config, the console.error calls
\* and the console.warn calls
validateConfig(cliOptions, fileConfig) ==
  LET merged == Spread(fileConfig, cliOptions)
      badProvider == ~Includes(validProviders, Prop(merged, "provider"))
      c1 == IF badProvider
              THEN JObj(SetMember(merged.v, <<"provider">>,
                                  Prop(DEFAULT_CONFIG, "provider")))
              ELSE merged
      badPlatform == ~Includes(validPlatforms, Prop(c1, "gitPlatform"))
      c2 == IF badPlatform
              THEN JObj(SetMember(c1.v, <<"gitPlatform">>,
                                  Prop(DEFAULT_CONFIG, "gitPlatform")))
              ELSE c1
      badSeverity == /\ IsTruthy(Prop(c2, "severity"))
                     /\ ~Includes(configSeverities, Prop(c2, "severity"))
      c3 == IF badSeverity
              THEN JObj(SetMember(c2.v, <<"severity">>,
                                  Prop(DEFAULT_CONFIG, "severity")))
              ELSE c2
  IN [config |-> c3,
      errors |-> (IF badProvider THEN <<"Invalid provider">> ELSE <<>>)
                   \o (IF badPlatform THEN <<"Invalid platform">> ELSE <<>>),
      warnings |-> IF badSeverity THEN <<"Invalid severity">> ELSE <<>>]

\* cli/index.ts, lines 16-74: program.opts() for the options given on the
\* command line; six options have a default
Opts(given) ==
  Spread(JObj(<<Member(<<"provider">>, Prop(DEFAULT_CONFIG, "provider")),
                Member(<<"model">>, Prop(DEFAULT_CONFIG, "model")),
                Member(<<"gitPlatform">>, Prop(DEFAULT_CONFIG, "gitPlatform")),
                Member(<<"commentStyle">>, Prop(DEFAULT_CONFIG, "commentStyle")),
                Member(<<"dryRun">>, Prop(DEFAULT_CONFIG, "dryRun")),
                Member(<<"verbose">>, Prop(DEFAULT_CONFIG, "verbose"))>>),
         given)

\* parseInt(s, 10) of a string of characters: the number its leading digits
\* write, NaN when it has none (a sign and leading white space left out)
ParseInt(s) ==
  IF DigitRunEnd(s.v, 1) = 0 THEN NaN
  ELSE JNum(DigitsVal(SubSeq(s.v, 1, DigitRunEnd(s.v, 1))) * Scale)

\* lines 108-112
sanitizeCliOptions(cli) == JObj(SelectSeq(cli.v, LAMBDA m : m.val # Undefined))

\* parseCli (lines 13-94)
parseCli(given) ==
  LET options == Opts(given)
      isLocal == Or(Prop(options, "local"), Prop(options, "patch"))
  IN sanitizeCliOptions(JObj(<<
       Member(<<"provider">>, Prop(options, "provider")),
       Member(<<"model">>, Prop(options, "model")),
       Member(<<"gitPlatform">>,
              IF IsTruthy(isLocal) THEN Str("local")
              ELSE Prop(options, "gitPlatform")),
       Member(<<"repo">>, Prop(options, "repo")),
       Member(<<"commentStyle">>, Prop(options, "commentStyle")),
       Member(<<"dryRun">>,
              IF IsTruthy(isLocal) THEN True ELSE Prop(options, "dryRun")),
       Member(<<"verbose">>, Prop(options, "verbose")),
       Member(<<"endpoint">>, Prop(options, "modelEndpoint")),
       Member(<<"configPath">>, Prop(options, "configPath")),
       Member(<<"local">>, Or(isLocal, Undefined)),
       Member(<<"base">>, Prop(options, "base")),
       Member(<<"head">>, Prop(options, "head")),
       Member(<<"patch">>, Prop(options, "patch")),
       Member(<<"requestTimeout">>,
              IF IsTruthy(Prop(options, "requestTimeout"))
                THEN ParseInt(Prop(options, "requestTimeout"))
                ELSE Undefined)>>))

\* src/index.ts, main(), lines 72-84 of its file: parseCli, loadConfig and
\* validateConfig, for the options given and the files found
Configure(given, fs) ==
  /\ call = None
  /\ \E cli \in {parseCli(given)} :
       \E loaded \in {loadConfig(Prop(cli, "configPath"), fs)} :
         \E final \in {validateConfig(cli, loaded.config)} :
           call' = Some([fn |-> "main", arg |-> <<given, fs>>,
                         ret |-> final.config,
                         errors |-> loaded.errors \o final.errors,
                         warnings |-> final.warnings])
  /\ UNCHANGED <<reviewVars, objects, calls, main>>

\* validateConfig(cliOptions, config)
ValidateConfigCall(cliOptions, fileConfig) ==
  /\ call = None
  /\ \E final \in {validateConfig(cliOptions, fileConfig)} :
       call' = Some([fn |-> "validateConfig", arg |-> <<cliOptions, fileConfig>>,
                     ret |-> final.config, errors |-> final.errors,
                     warnings |-> final.warnings])
  /\ UNCHANGED <<reviewVars, objects, calls, main>>

\* nothing, or one member key with a value of vs
Opt(key, vs) == {<<>>} \cup {<<Member(<<key>>, v)>> : v \in vs}

\* the options given on the command line
Givens ==
  {JObj(a \o b \o c \o d \o e \o f \o g) :
     a \in Opt("provider", {Str("openai"), Str("ollama")}),
     b \in Opt("model", {Str("cli-model")}),
     c \in Opt("gitPlatform", {Str("gitlab")}),
     d \in Opt("local", {True}),
     e \in Opt("dryRun", {True}),
     f \in Opt("configPath", {Str("conf")}),
     g \in Opt("requestTimeout", {JStr(<<"5", "0">>), JStr(<<"s", "5">>)})}

\* what the config files hold
FileContents ==
  {JObj(<<>>),
   JObj(<<Member(<<"model">>, Str("file-model")),
          Member(<<"repo">>, Str("file/repo"))>>),
   JObj(<<Member(<<"provider">>, Str("ollama")),
          Member(<<"severity">>, Str("error")),
          Member(<<"dryRun">>, True)>>),
   JObj(<<Member(<<"gitPlatform">>, Str("local")),
          Member(<<"severity">>, Str("critical")),
          Member(<<"commentStyle">>, Str("summary"))>>),
   JObj(<<Member(<<"severity">>, JStr(<<>>)),
          Member(<<"verbose">>, True)>>)}

\* the files found: one at the path of --config-path, or the two of the
\* working directory
FileSystems ==
  {[given |-> Missing, json |-> Missing, yml |-> Missing]}
    \cup {[given |-> File(ext, Some(c)), json |-> Missing, yml |-> Missing] :
            ext \in {"json", "yaml", "txt"}, c \in FileContents}
    \cup {[given |-> File("json", None), json |-> Missing, yml |-> Missing]}
    \cup {[given |-> Missing, json |-> File("json", Some(c)),
            yml |-> File("yml", Some(JObj(<<Member(<<"model">>, Str("yml-model"))>>)))] :
            c \in FileContents}
    \cup {[given |-> Missing, json |-> Missing, yml |-> File("yml", Some(c))] :
            c \in FileContents}

\* configs and options validateConfig is called with
ValidatedConfigs ==
  {Spread(DEFAULT_CONFIG, JObj(a \o b \o c)) :
     a \in Opt("provider", {Str("ollama"), Str("claude")}),
     b \in Opt("gitPlatform", {Str("local"), Str("gitlab")}),
     c \in Opt("severity", {Str("warning"), Str("error"), Str("critical"),
                           JStr(<<>>)})}

ValidatedOptions ==
  {JObj(a \o b \o c) :
     a \in Opt("provider", {Str("openai"), Str("ollama"), Str("claude")}),
     b \in Opt("gitPlatform", {Str("github"), Str("local")}),
     c \in Opt("severity", {Str("suggestion"), Str("critical")})}

NextConfig ==
  \/ \E given \in Givens, fs \in FileSystems : Configure(given, fs)
  \/ \E cliOptions \in ValidatedOptions, fileConfig \in ValidatedConfigs :
       ValidateConfigCall(cliOptions, fileConfig)

SpecConfig == InitNormalizer /\ [][NextConfig]_vars

----------------------------------------------------------------------------
(* The review call: what it returns, what it throws, what it logs           *)

\* C1, as the specification states it: review never throws on a text the
\* transport returned, and a structured-capable adapter whose response is
\* invalid JSON or violates the schema logs a warning and returns the legacy
\* parser's result.
C1_WarningOnEveryFallback ==
  /\ raw # None => pc = "done" /\ result # None /\ thrown = None
  /\ (structured /\ raw # None /\ ~parseStructuredResponse(raw[1]).success)
       => /\ Len(warnings) = 1
          /\ result = Some(parseFreeTextResponse(raw[1], config))

\* C1, amended: review never throws on a text the transport returned; a
\* structured-capable adapter whose response is invalid JSON or violates
\* the schema returns the legacy parser's result for the raw text, and logs
\* one warning exactly when the response passes the structured pre-check
\* (otherwise it logs nothing).  For {"comments":[{"wrong":"fields"}]} with
\* commentStyle not summary: one warning and exactly one summary comment
\* whose content is the raw JSON string.
C1_FallbackToLegacy ==
  /\ raw # None =>
       pc = "done" /\ result # None /\ thrown = None /\ errors = <<>>
  /\ (structured /\ raw # None /\ ~parseStructuredResponse(raw[1]).success)
       => /\ result = Some(parseFreeTextResponse(raw[1], config))
          /\ parser = "legacy"
          /\ Len(warnings) =
               (IF looksLikeStructuredResponse(raw[1]) THEN 1 ELSE 0)
  /\ (structured /\ raw = Some(WrongFieldsText)
       /\ config.commentStyle # Some("summary"))
       => /\ Len(warnings) = 1
          /\ result = Some(<<[type |-> "summary", path |-> None,
                              line |-> None, content |-> WrongFieldsText,
                              severity |-> config.severity]>>)

\* the schema-violating response has come back, with a warning
C1_Witness ==
  /\ structured /\ pc = "done"
  /\ raw = Some(WrongFieldsText)
  /\ config.commentStyle = None
  /\ Len(warnings) = 1

\* C2: within one review call callLLM is invoked at most once; if the
\* invocation fails, review throws the very same error after logging it,
\* and returns no comment list.
C2_TransportOnceNoRetry ==
  /\ llmCalls <= 1
  /\ rejected # None =>
       /\ llmCalls = 1
       /\ pc = "failed"
       /\ thrown = rejected
       /\ errors = <<rejected[1]>>
       /\ result = None

\* the transport has timed out and review has thrown
C2_Witness == rejected = Some("timeout") /\ pc = "failed"

\* C3: if the ignore patterns remove every file of the change set, review
\* returns exactly one summary comment with the fixed content and callLLM
\* is not invoked; if a file remains, callLLM is invoked.
C3_NoFilesShortCircuit ==
  pc # "idle" =>
    IF \A i \in 1..Len(diff) :
         /\ config.ignoreFiles # None
         /\ IsIgnored(diff[i], config.ignoreFiles[1])
      THEN /\ llmCalls = 0
           /\ pc = "done"
           /\ result # None /\ Len(result[1]) = 1
           /\ result[1][1].type = "summary"
           /\ result[1][1].content =
                <<"No files to review after applying ignore patterns.">>
      ELSE llmCalls = 1

\* a change set of two files, both ignored, has been answered
C3_Witness ==
  /\ pc = "done" /\ Len(diff) = 2 /\ llmCalls = 0
  /\ config.ignoreFiles = Some(<<StarMd, src_app_ts>>)

\* the files of the diff that match no ignore pattern of the config, by
\* the relation Matches of a filename and a pattern
Unmatched(files, patterns, Matches(_, _)) ==
  SelectSeq(files,
            LAMBDA f : ~\E i \in 1..Len(patterns) :
                          Matches(f.filename, patterns[i]))

\* the patterns of the config of the state
IgnorePatterns == IF config.ignoreFiles = None THEN <<>> ELSE config.ignoreFiles[1]

\* the files review hands to the prompt are the files kept
PromptedAre(kept) ==
  IF kept = <<>> THEN prompted = None /\ llmCalls = 0
  ELSE prompted = Some(kept)

\* C18, as the specification states it: the ignore filter removes exactly
\* the files whose filename matches an ignore pattern, where *.<ext> matches
\* every filename that ends in .<ext> and any other pattern matches only
\* the filename equal to it; the other files keep their order.
C18_StarDotExtOrEqual ==
  pc # "idle" =>
    LET Matches(filename, pattern) ==
          IF Len(pattern) >= 2 /\ pattern[1] = "*" /\ pattern[2] = "."
            THEN EndsWith(filename, Tail(pattern))
            ELSE filename = pattern
    IN  PromptedAre(Unmatched(diff, IgnorePatterns, Matches))

\* C18, amended: the same, where every pattern that starts with * and holds
\* a dot matches the filenames that end in the pattern's text after the *.
C18_StarWithDotOrEqual ==
  pc # "idle" =>
    LET Matches(filename, pattern) ==
          IF /\ pattern # <<>> /\ pattern[1] = "*"
             /\ \E i \in 1..Len(pattern) : pattern[i] = "."
            THEN EndsWith(filename, Tail(pattern))
            ELSE filename = pattern
    IN  /\ PromptedAre(Unmatched(diff, IgnorePatterns, Matches))
        /\ IgnorePatterns = <<>> /\ diff # <<>> => prompted = Some(diff)

\* the pattern *app.ts has removed src/app.ts and kept README.md
C18_Witness ==
  /\ pc = "calling"
  /\ config.ignoreFiles = Some(<<<<"*", "app", ".", "ts">>>>)
  /\ Len(diff) = 2
  /\ diff[1].filename = src_app_ts /\ diff[2].filename = README_md
  /\ prompted = Some(<<diff[2]>>)

----------------------------------------------------------------------------
(* The Normalizer: filters, order, conversion                               *)

\* the structured response the state's text encodes, and its comments
Answer == JSONParse(raw[1]).val

AnswerComments == Prop(Answer, "comments").v

\* the Normalizer has produced the result of the state
Normalized == pc = "done" /\ raw # None /\ parser = "normalizer"

\* the ranking of the structured severities, most severe first
Ranking == <<"critical", "warning", "suggestion", "nitpick">>

InRanking(sev) == \E i \in 1..Len(Ranking) : Ranking[i] = sev

RankOf(sev) == CHOOSE i \in 1..Len(Ranking) : Ranking[i] = sev

SeverityOf(c) == Prop(c, "severity").v[1]

ConfidenceOf(c) == Prop(c, "confidence").v

\* 0.6
SixTenths == (6 * Scale) \div 10

\* the file and the line of each structured comment of a list
Places(cs) ==
  [i \in 1..Len(cs) |->
     <<Prop(cs[i], "file").v, Prop(cs[i], "line").v \div Scale>>]

InlineOf(out) == SelectSeq(out, LAMBDA a : a.type = "inline")

\* the path and the line of each inline comment of a list
PlacesOut(out) ==
  [i \in 1..Len(InlineOf(out)) |->
     <<InlineOf(out)[i].path[1], InlineOf(out)[i].line[1]>>]

\* the comments at or above the threshold sev with confidence at least 0.6
KeptAt(sev) ==
  SelectSeq(AnswerComments,
            LAMBDA c : /\ RankOf(SeverityOf(c)) <= RankOf(sev)
                       /\ ConfidenceOf(c) >= SixTenths)

\* C4: with the threshold T in the ranking, a structured comment of
\* confidence at least 0.6 is kept if and only if its ranking index is at
\* most the index of T.
C4_KeptIffAtLeastThreshold ==
  (/\ Normalized
   /\ config.severity # None /\ InRanking(config.severity[1])
   /\ \A i \in 1..Len(AnswerComments) :
        ConfidenceOf(AnswerComments[i]) >= SixTenths)
  => PlacesOut(result[1])
       = Places(SelectSeq(AnswerComments,
                          LAMBDA c : RankOf(SeverityOf(c))
                                       <= RankOf(config.severity[1])))

\* with the threshold suggestion, a nitpick comment is dropped and the
\* suggestion comment after it is kept
C4_Witness ==
  /\ Normalized
  /\ config.severity = Some("suggestion")
  /\ AnswerComments = <<Comment4, Comment3>>
  /\ PlacesOut(result[1]) = <<<<a_md, 3>>>>

\* C5: when config.severity is unset or no member of the ranking, the
\* Normalizer filters with the threshold suggestion.
C5_DefaultThresholdSuggestion ==
  (/\ Normalized
   /\ config.severity = None \/ ~InRanking(config.severity[1]))
  => PlacesOut(result[1]) = Places(KeptAt("suggestion"))

\* the threshold is error and the one comment of the response, critical
\* with confidence 0.9, is not in the output
C5_Witness ==
  /\ Normalized
  /\ config.severity = Some("error")
  /\ AnswerComments = <<Comment1>>
  /\ InlineOf(result[1]) = <<>>

\* the place in the ranking the code compares a comment's place with: that
\* of the threshold, of suggestion when unset, and one before the first
\* place (indexOf gives -1) when the threshold is no member of the ranking
ThresholdRank ==
  IF config.severity = None THEN RankOf("suggestion")
  ELSE IF InRanking(config.severity[1]) THEN RankOf(config.severity[1])
  ELSE 0

\* C6: a structured comment is kept if and only if it passes the severity
\* filter (the comparison of ranking indices) and its confidence is at
\* least 0.6, for every config: 0.6 passes, 0.59999 fails.
C6_KeptIffBothFilters ==
  Normalized =>
    PlacesOut(result[1])
      = Places(SelectSeq(AnswerComments,
                         LAMBDA c : /\ RankOf(SeverityOf(c)) <= ThresholdRank
                                    /\ ConfidenceOf(c) >= SixTenths))

\* a suggestion comment of confidence 0.59999 is dropped and one of
\* confidence 0.6 is kept
C6_Witness ==
  /\ Normalized
  /\ config.severity = Some("suggestion")
  /\ AnswerComments = <<Comment5, Comment3>>
  /\ ConfidenceOf(Comment5) = SixTenths - Scale \div 100000
  /\ PlacesOut(result[1]) = <<<<a_md, 3>>>>

\* C7: the output is one summary comment, emitted if and only if the
\* response's summary is present and non-empty, tagged with config.severity
\* and not filtered, then the converted surviving comments in the order of
\* the response; for {"summary":"","comments":[]} the output is empty.
C7_SummaryThenSurvivors ==
  Normalized =>
    LET summary    == Prop(Answer, "summary")
        hasSummary == summary.t = "str" /\ summary.v # <<>>
        out        == result[1]
        rest       == IF hasSummary THEN Tail(out) ELSE out
    IN  /\ hasSummary =>
             /\ out # <<>>
             /\ out[1] = [type |-> "summary", path |-> None, line |-> None,
                          content |-> summary.v, severity |-> config.severity]
        /\ \A i \in 1..Len(rest) : rest[i].type = "inline"
        /\ PlacesOut(rest)
             = Places(SelectSeq(AnswerComments,
                                LAMBDA c : /\ RankOf(SeverityOf(c)) <= ThresholdRank
                                           /\ ConfidenceOf(c) >= SixTenths))
        /\ raw[1] = EmptyResponseText => out = <<>>

\* a summary before two comments kept in their order
C7_Witness ==
  /\ Normalized
  /\ config.severity = Some("nitpick")
  /\ Prop(Answer, "summary") = JStr(<<"looks", " ", "good">>)
  /\ AnswerComments = <<Comment7, Comment1>>
  /\ Len(result[1]) = 3
  /\ result[1][1].type = "summary"
  /\ PlacesOut(result[1]) = <<<<README_md, 7>>, <<src_app_ts, 1>>>>

\* the rendered content holds a suggestion block
HasSuggestionBlock(content) ==
  \E i \in 1..Len(content) : content[i] = "**Suggestion:**"

\* C8: every structured comment that passes both filters becomes exactly
\* one inline comment with the comment's file and line and the severity
\* mapped critical to error, warning to warning, suggestion to suggestion,
\* nitpick to suggestion; its content holds a suggestion block if and only
\* if the comment's suggestion is a non-empty string.
C8_ConversionOfSurvivors ==
  Normalized =>
    LET kept == SelectSeq(AnswerComments,
                          LAMBDA c : /\ RankOf(SeverityOf(c)) <= ThresholdRank
                                     /\ ConfidenceOf(c) >= SixTenths)
        out  == InlineOf(result[1])
    IN  /\ Len(out) = Len(kept)
        /\ \A i \in 1..Len(kept) :
             /\ out[i].path = Some(Prop(kept[i], "file").v)
             /\ out[i].line = Some(Prop(kept[i], "line").v \div Scale)
             /\ out[i].severity =
                  Some(CASE SeverityOf(kept[i]) = "critical" -> "error"
                         [] SeverityOf(kept[i]) = "warning" -> "warning"
                         [] SeverityOf(kept[i]) = "suggestion" -> "suggestion"
                         [] SeverityOf(kept[i]) = "nitpick" -> "suggestion")
             /\ HasSuggestionBlock(out[i].content)
                  <=> (/\ Prop(kept[i], "suggestion").t = "str"
                       /\ Prop(kept[i], "suggestion").v # <<>>)

\* a nitpick comment with a suggestion and a suggestion comment whose
\* suggestion is the empty string have been converted
C8_Witness ==
  /\ Normalized
  /\ config.severity = Some("nitpick")
  /\ AnswerComments = <<Comment7, Comment3>>
  /\ Len(result[1]) = 2
  /\ result[1][1].severity = Some("suggestion")
  /\ HasSuggestionBlock(result[1][1].content)
  /\ ~HasSuggestionBlock(result[1][2].content)

----------------------------------------------------------------------------
(* The legacy parser                                                        *)

\* the legacy parser has produced the result of the state
ParsedByLegacy == pc = "done" /\ raw # None /\ parser = "legacy"

\* a <path>:<line> <dash> head somewhere in the text
HasOccurrence(t) == \E p \in 1..Len(t) : HeadAt(t, p).ok

\* C9: for every response text and every comment style the legacy parser
\* returns at least one comment; when no occurrence is found, exactly one
\* summary comment whose content is the trimmed response.
C9_AtLeastOneComment ==
  ParsedByLegacy =>
    /\ Len(result[1]) >= 1
    /\ ~HasOccurrence(raw[1]) =>
         result[1] = <<[type |-> "summary", path |-> None, line |-> None,
                        content |-> Trim(raw[1]),
                        severity |-> config.severity]>>

\* a white-space-only response has become one summary comment with empty
\* content
C9_Witness ==
  /\ ParsedByLegacy
  /\ raw = Some(<<" ", NL>>)
  /\ config.commentStyle = Some("inline")
  /\ Len(result[1]) = 1
  /\ result[1][1].type = "summary" /\ result[1][1].content = <<>>

\* the inline comments the claim expects for a list of occurrences
ExpectedInline(l) ==
  [i \in 1..Len(l) |->
     [type |-> "inline", path |-> Some(l[i].path),
      line |-> Some(DigitsVal(l[i].line)), content |-> Trim(l[i].text),
      severity |-> config.severity]]

\* C10, as the specification states it: with commentStyle not summary, a
\* response made of N occurrences gives exactly N inline comments, in
\* order, each with the matched path, the line as an integer, the trimmed
\* text and config.severity, and no summary comment.
C10_EveryOccurrenceOneComment ==
  (ParsedByLegacy /\ config.commentStyle # Some("summary")) =>
    \A e \in OccurrenceTable :
      raw = Some(e.text) => result = Some(ExpectedInline(e.list))

\* C10, amended: the same, for occurrences whose text is not empty after
\* trimming.
C10_OccurrenceWithTextOneComment ==
  (ParsedByLegacy /\ config.commentStyle # Some("summary")) =>
    \A e \in OccurrenceTable :
      (/\ raw = Some(e.text)
       /\ \A i \in 1..Len(e.list) : Trim(e.list[i].text) # <<>>)
      => result = Some(ExpectedInline(e.list))

\* two occurrences, the first with an em dash, have become two inline
\* comments
C10_Witness ==
  /\ ParsedByLegacy
  /\ config.commentStyle = None
  /\ \E e \in OccurrenceTable :
       /\ Len(e.list) = 2
       /\ e.list[1].dash = EmDash
       /\ raw = Some(e.text)
  /\ Len(result[1]) = 2
  /\ result[1][1] = [type |-> "inline", path |-> Some(src_app_ts),
                     line |-> Some(5),
                     content |-> <<"Missing", " ", "null", " ", "check">>,
                     severity |-> config.severity]

\* C11: with commentStyle summary the legacy parser returns exactly one
\* comment, of type summary, whose content is the trimmed full response,
\* also when the response holds occurrences.
C11_SummaryStyleOneSummary ==
  (ParsedByLegacy /\ config.commentStyle = Some("summary")) =>
    /\ Len(result[1]) = 1
    /\ result[1][1].type = "summary"
    /\ result[1][1].path = None /\ result[1][1].line = None
    /\ result[1][1].content = Trim(raw[1])

\* a response of two occurrences, the second with white space at its end,
\* has become one summary comment
C11_Witness ==
  /\ ParsedByLegacy
  /\ config.commentStyle = Some("summary")
  /\ \E e \in OccurrenceTable :
       /\ Len(e.list) = 2
       /\ raw = Some(e.text)
       /\ Trim(e.text) # e.text
  /\ Len(result[1]) = 1
  /\ result[1][1].type = "summary"

----------------------------------------------------------------------------
(* The validator and the structured parser                                  *)

\* the last call was of the function fn
Called(fn) == call # None /\ call[1].fn = fn

\* a string member of a list of strings
IsOneOf(v, names) == v.t = "str" /\ \E n \in names : v.v = <<n>>

\* what the schema asks of an entry of comments
EntryMeetsSchema(e) ==
  /\ e.t = "obj"
  /\ Prop(e, "file").t = "str" /\ Prop(e, "file").v # <<>>
  /\ Prop(e, "line").t = "num"
  /\ Prop(e, "line").v % Scale = 0 /\ Prop(e, "line").v >= Scale
  /\ IsOneOf(Prop(e, "severity"),
             {"critical", "warning", "suggestion", "nitpick"})
  /\ IsOneOf(Prop(e, "category"),
             {"bug", "security", "performance", "style", "architecture",
              "testing"})
  /\ Prop(e, "confidence").t = "num"
  /\ Prop(e, "confidence").v >= 0 /\ Prop(e, "confidence").v <= Scale
  /\ Prop(e, "title").t = "str" /\ Prop(e, "title").v # <<>>
  /\ Prop(e, "explanation").t = "str" /\ Prop(e, "explanation").v # <<>>
  /\ HasKey(e, <<"suggestion">>) => Prop(e, "suggestion").t = "str"

\* what the schema asks of a response
MeetsSchema(v) ==
  /\ v.t = "obj"
  /\ Prop(v, "comments").t = "arr"
  /\ \A i \in 1..Len(Prop(v, "comments").v) :
       EntryMeetsSchema(Prop(v, "comments").v[i])
  /\ HasKey(v, <<"summary">>) => Prop(v, "summary").t = "str"

\* C12: for every decoded value v, validateStructuredResponse(v) returns
\* valid = true exactly when v is an object whose comments is an array of
\* entries that meet the schema and whose summary, if present, is a string;
\* valid is true if and only if the error list is empty.
C12_ValidIffMeetsSchema ==
  Called("validateStructuredResponse") =>
    /\ call[1].ret.valid <=> MeetsSchema(call[1].arg)
    /\ call[1].ret.valid <=> call[1].ret.errors = <<>>

\* a response whose second entry has an empty file has been refused with
\* one error
C12_Witness ==
  /\ Called("validateStructuredResponse")
  /\ call[1].arg.t = "obj"
  /\ Prop(call[1].arg, "comments")
       = JArr(<<Comment3, WithoutMember(Comment2, "file")>>)
  /\ ~call[1].ret.valid
  /\ call[1].ret.errors
       = <<<<"comments[", "1", "]",
             ".file is required and must be a non-empty string">>>>

\* C13: parseStructuredResponse(text) returns exactly one of three outcomes:
\* a failure whose error starts with "JSON parse error" when the text does
\* not decode as JSON; a failure whose error is "Validation failed: " and
\* all validator errors joined with "; " when the decoded value fails the
\* validator; a success carrying the decoded value otherwise.  success is
\* true if and only if data is present and error is absent.
C13_ThreeOutcomes ==
  Called("parseStructuredResponse") =>
    LET decoded    == JSONParse(call[1].arg)
        validation == validateStructuredResponse(decoded.val)
        ret        == call[1].ret
    IN  /\ ~decoded.ok =>
             /\ ~ret.success /\ ret.data = None /\ ret.error # None
             /\ ret.error[1][1] = "JSON parse error: "
        /\ (decoded.ok /\ ~validation.valid) =>
             /\ ~ret.success /\ ret.data = None
             /\ ret.error = Some(<<"Validation failed: ">>
                                   \o Join(validation.errors, <<"; ">>))
        /\ (decoded.ok /\ validation.valid) =>
             /\ ret.success /\ ret.data = Some(decoded.val)
             /\ ret.error = None
        /\ ret.success <=> (ret.data # None /\ ret.error = None)

\* a response with two faulty entries has been refused with both errors
C13_Witness ==
  /\ Called("parseStructuredResponse")
  /\ call[1].arg =
       Stringify(JObj(<<Member(<<"summary">>, JStr(<<"x">>)),
                        Member(<<"comments">>,
                               JArr(<<JNull, WithoutMember(Comment2, "file")>>))>>))
  /\ call[1].ret.error =
       Some(<<"Validation failed: ",
              "comments[", "0", "]", " must be an object",
              "; ",
              "comments[", "1", "]",
              ".file is required and must be a non-empty string">>)

\* C14: looksLikeStructuredResponse(text) returns true if and only if the
\* trimmed text starts with {, decodes as JSON, and the decoded object's
\* comments is an array; it returns false for text that is no JSON, for a
\* JSON array, for an object without a comments array and for the empty
\* string.
C14_LooksLikeIffCommentsArray ==
  Called("looksLikeStructuredResponse") =>
    LET text    == call[1].arg
        decoded == JSONParse(Trim(text))
    IN  /\ call[1].ret \in BOOLEAN
        /\ call[1].ret <=>
             /\ Trim(text) # <<>> /\ Trim(text)[1] = "{"
             /\ decoded.ok
             /\ decoded.val.t = "obj"
             /\ Prop(decoded.val, "comments").t = "arr"
        /\ \A v \in DecodedValues :
             text = Stringify(v) =>
               (call[1].ret <=> (v.t = "obj" /\ Prop(v, "comments").t = "arr"))
        /\ text \in {<<"looks", " ", "good">>, SubSeq(ValidText, 1, 6),
                      <<"[", "]">>, <<"{", "}">>, <<>>, <<" ", NL>>,
                      Stringify(JArr(<<>>)),
                      Stringify(JObj(<<Member(<<"summary">>, JStr(<<"x">>))>>)),
                      Stringify(JObj(<<Member(<<"comments">>, JObj(<<>>))>>))}
             => ~call[1].ret

\* a structured response with white space around it has been recognised
C14_Witness ==
  /\ Called("looksLikeStructuredResponse")
  /\ call[1].arg = <<" ", NL>> \o ValidText \o <<NL>>
  /\ call[1].ret = TRUE

\* C15: for every StructuredReviewResponse r that meets the schema,
\* parseStructuredResponse of the JSON encoding of r succeeds and its data
\* equals r, no comment removed or changed.
C15_RoundTrip ==
  Called("parseStructuredResponse") =>
    \A r \in DecodedValues :
      (MeetsSchema(r) /\ call[1].arg = Stringify(r)) =>
        /\ call[1].ret.success
        /\ call[1].ret.data = Some(r)

\* a response whose comment's title holds quotes, a backslash and a line
\* break has come back whole
C15_Witness ==
  /\ Called("parseStructuredResponse")
  /\ call[1].arg =
       Stringify(JObj(<<Member(<<"comments">>,
          JArr(<<WithMember(Comment1, "title",
                            JStr(<<Quote, "x", Quote, Backslash, NL>>))>>))>>))
  /\ call[1].ret.success
  /\ Stringify(call[1].ret.data[1]) = call[1].arg

----------------------------------------------------------------------------
(* The diff annotator                                                       *)

\* the annotated text of each well-formed patch
ExpectedPatch == [t \in {PatchText(p, FALSE) : p \in Patches} |->
                   PatchText(CHOOSE p \in Patches : PatchText(p, FALSE) = t, TRUE)]

\* C16: for every well-formed patch of a file whose status is not deleted,
\* each added line is suffixed with the 1-based number of the line in the
\* post-change file (the start of its hunk plus the added and context lines
\* of the hunk before it), and no other line is changed.
C16_AddedLinesNumbered ==
  Called("parseUnifiedDiff") =>
    \A i \in 1..Len(call[1].arg) :
      (/\ call[1].arg[i].status # "deleted"
       /\ call[1].arg[i].patch # None
       /\ call[1].arg[i].patch[1] \in DOMAIN ExpectedPatch)
      => call[1].ret[i].patch = Some(ExpectedPatch[call[1].arg[i].patch[1]])

\* a removed last line without a line break, replaced by a line x: the
\* added line, the first of the new file, is numbered 2
C16_Witness ==
  /\ Called("parseUnifiedDiff")
  /\ Len(call[1].arg) = 1
  /\ call[1].arg[1].patch =
       Some(<<"@", "@", " ", "-", "1", " ", "+", "1", " ", "@", "@", NL,
              "-", "old", NL,
              Backslash, " ", "No newline at end of file", NL,
              "+", "x">>)
  /\ call[1].ret[1].patch =
       Some(<<"@", "@", " ", "-", "1", " ", "+", "1", " ", "@", "@", NL,
              "-", "old", NL,
              Backslash, " ", "No newline at end of file", NL,
              "+", "x", " // LINE_NUMBER: ", "2">>)

\* a line the annotator takes for an added line
IsAddedLine(line) ==
  /\ line # <<>> /\ line[1] = "+"
  /\ ~(Len(line) >= 3 /\ line[2] = "+" /\ line[3] = "+")

\* C17: parseUnifiedDiff changes nothing but the text of added lines: a file
\* with status deleted or without patch is returned equal to the input; for
\* every other file the other fields, the number and order of the files and
\* of the patch lines are kept, and every line that is no added line is
\* identical to the input line; the caller's list is not modified.
C17_OnlyAddedLinesChange ==
  Called("parseUnifiedDiff") =>
    /\ call[1].after = call[1].arg
    /\ Len(call[1].ret) = Len(call[1].arg)
    /\ \A i \in 1..Len(call[1].arg) :
         LET f == call[1].arg[i]
             g == call[1].ret[i]
         IN  /\ (f.status = "deleted" \/ f.patch = None) => g = f
             /\ g.filename = f.filename /\ g.status = f.status
             /\ g.additions = f.additions /\ g.deletions = f.deletions
             /\ g.previousFilename = f.previousFilename
             /\ (g.patch = None) <=> (f.patch = None)
             /\ f.patch # None =>
                  LET old == SplitLines(f.patch[1])
                      new == SplitLines(g.patch[1])
                  IN  /\ Len(new) = Len(old)
                      /\ \A j \in 1..Len(old) :
                           IF IsAddedLine(old[j])
                             THEN StartsWith(new[j], old[j])
                             ELSE new[j] = old[j]

\* a renamed file with a patch has been annotated next to a deleted file
\* with a patch
C17_Witness ==
  /\ Called("parseUnifiedDiff")
  /\ Len(call[1].arg) = 2
  /\ call[1].arg[1].status = "renamed" /\ call[1].arg[1].patch # None
  /\ call[1].ret[1].patch # call[1].arg[1].patch
  /\ call[1].ret[1].previousFilename = Some(README_md)
  /\ call[1].arg[2].status = "deleted" /\ call[1].arg[2].patch # None
  /\ call[1].arg[2].patch # Some(<<>>)
  /\ call[1].ret[2] = call[1].arg[2]

----------------------------------------------------------------------------
(* Review calls in flight together                                          *)

\* what review returns for a diff, a config and a model response when it
\* runs alone
ReturnsAlone(s, d, c, r) ==
  IF filterIgnoredFiles(d, c) = <<>> THEN <<NoFilesComment>>
  ELSE ParseRaw(s, r, c).comments

----------------------------------------------------------------------------
(* The main loop                                                            *)

\* main() has ended, one way or another
MainEnded == main.pc \in {"returned", "finished", "exited"}

\* C20: a transport or platform failure while one pull request is processed
\* marks only that pull request as failed and does not keep the others from
\* being processed: when main ends, every pull request has exactly one
\* result, of status failure for the ones with a failure, and of status
\* success or skipped for the others.
C20_EveryChangeSetOneResult ==
  MainEnded =>
    /\ Len(main.results) = Len(main.pullRequests)
    /\ \A k \in 1..Len(main.pullRequests) :
         /\ main.results[k].prId = main.pullRequests[k]
         /\ main.results[k].status \in {"success", "skipped", "failure"}
         /\ main.results[k].status = "failure"
              <=> main.pullRequests[k] \in main.rejections

\* with two pull requests, hasAICommented has failed for the second: the
\* process has ended with the result of the first alone
C20_Witness ==
  /\ main.pc = "exited"
  /\ main.pullRequests = <<1, 2>>
  /\ main.rejections = {2}
  /\ Len(main.results) = 1
  /\ main.results[1].status = "success"
  /\ main.exitCode = Some(1)

----------------------------------------------------------------------------
(* Runs one after the other                                                 *)

\* the runs that have ended, and the runs with the one under way
EndedRuns == main.past \o (IF MainEnded THEN <<RunRecord(main)>> ELSE <<>>)

AllRuns == Append(main.past, RunRecord(main))

\* the status run r gave pull request p (None when it gave none)
StatusIn(r, p) ==
  IF \E k \in 1..Len(r.results) : r.results[k].prId = p
    THEN Some(r.results[CHOOSE k \in 1..Len(r.results) :
                          r.results[k].prId = p].status)
    ELSE None

\* C21: once a run that was no dry run has given pull request p the status
\* success at head commit S, every later run that finds the head of p still
\* at S and gives p a result skips p: the result is skipped, model.review is
\* not called for p and no comment is posted on p; and in every run, a pull
\* request hasAICommented was true for is not reviewed and gets no comment.
C21_NoDuplicateReview ==
  /\ \A i \in 1..Len(EndedRuns), j \in 1..Len(EndedRuns),
        p \in 1..MaxPullRequests :
        (/\ i < j
         /\ ~EndedRuns[i].dryRun
         /\ StatusIn(EndedRuns[i], p) = Some("success")
         /\ EndedRuns[j].head[p] = EndedRuns[i].head[p]
         /\ StatusIn(EndedRuns[j], p) # None)
        => /\ StatusIn(EndedRuns[j], p) = Some("skipped")
           /\ p \notin EndedRuns[j].invoked
           /\ EndedRuns[j].posted[p] = 0
  /\ \A i \in 1..Len(AllRuns) :
        \A p \in AllRuns[i].commented :
          /\ p \notin AllRuns[i].invoked
          /\ AllRuns[i].posted[p] = 0
          /\ StatusIn(AllRuns[i], p) = Some("skipped")

\* the first run reviewed pull request 1 with success and the model had no
\* comment to make; the second run, with the head where it was, has
\* reviewed it again and posted a comment
C21_Witness ==
  /\ Len(main.past) = 1
  /\ ~main.past[1].dryRun
  /\ StatusIn(main.past[1], 1) = Some("success")
  /\ main.past[1].posted[1] = 0
  /\ main.head[1] = main.past[1].head[1]
  /\ MainEnded
  /\ StatusIn(RunRecord(main), 1) = Some("success")
  /\ 1 \in main.invoked
  /\ main.posted[1] = 1

----------------------------------------------------------------------------
(* The count of comments in a result                                        *)

\* C30: the commentsPosted of every result of the run is the number of
\* comments postComment has created on that pull request in the run: zero
\* for a pull request that was skipped, that failed or that was processed in
\* a dry run.
C30_CommentsPostedAreCreated ==
  \A k \in 1..Len(main.results) :
    /\ main.results[k].commentsPosted = main.posted[main.results[k].prId]
    /\ (main.results[k].status \in {"skipped", "failure"} \/ main.dryRun)
         => main.results[k].commentsPosted = 0

\* a dry run has given pull request 1 a result of two comments posted, and
\* postComment was never called
C30_Witness ==
  /\ main.dryRun
  /\ Len(main.results) > 0
  /\ main.results[1].prId = 1
  /\ main.results[1].status = "success"
  /\ main.results[1].commentsPosted = 2
  /\ main.posted[1] = 0

----------------------------------------------------------------------------
(* The configuration of a run                                               *)

\* the keys of the final configuration, each with the command-line option
\* that sets it (None when no option does)
ConfigKeys ==
  {<<"provider", Some("provider")>>, <<"model", Some("model")>>,
   <<"gitPlatform", Some("gitPlatform")>>, <<"repo", Some("repo")>>,
   <<"commentStyle", Some("commentStyle")>>, <<"dryRun", Some("dryRun")>>,
   <<"verbose", Some("verbose")>>, <<"endpoint", Some("modelEndpoint")>>,
   <<"severity", None>>, <<"ignoreFiles", None>>}

\* the content of the config file of a run: the file at the path of
\* --config-path when there is one, else .aicodeconfig.json, else
\* .aicode.yml; an empty object when none is found or it cannot be read
ConfigFileOf(given, fs) ==
  LET file == IF HasKey(given, <<"configPath">>) /\ fs.given # Missing
                THEN fs.given
              ELSE IF fs.json # Missing THEN fs.json
              ELSE fs.yml
  IN IF file.content = None \/ file.ext \notin {"json", "yml", "yaml"}
       THEN JObj(<<>>)
       ELSE file.content[1]

\* C22: for every key, the final configuration carries the value of the
\* command-line option when the option is given, else the value of the
\* config file when the file sets the key, else the default.
C22_CliThenFileThenDefault ==
  (Called("main")) =>
    \A key \in ConfigKeys :
      Prop(call[1].ret, key[1]) =
        IF key[2] # None /\ HasKey(call[1].arg[1], <<key[2][1]>>)
          THEN Prop(call[1].arg[1], key[2][1])
        ELSE IF HasKey(ConfigFileOf(call[1].arg[1], call[1].arg[2]), <<key[1]>>)
          THEN Prop(ConfigFileOf(call[1].arg[1], call[1].arg[2]), key[1])
        ELSE Prop(DEFAULT_CONFIG, key[1])

\* no option is given on the command line and .aicodeconfig.json sets the
\* model to file-model: the final configuration has the default model
C22_Witness ==
  /\ Called("main")
  /\ call[1].arg[1] = JObj(<<>>)
  /\ call[1].arg[2].json # Missing
  /\ Prop(ConfigFileOf(call[1].arg[1], call[1].arg[2]), "model")
       = Str("file-model")
  /\ Prop(call[1].ret, "model") = Str("gpt-4o")

\* what validateConfig validates: the config with the options laid over it
MergedArgs == Spread(call[1].arg[2], call[1].arg[1])

\* C23: validateConfig returns a config whose provider is openai or ollama,
\* whose gitPlatform is github or local and whose severity is suggestion,
\* warning or error; each of the three is the value given when that value is
\* supported, and otherwise the default (openai, github, suggestion), with
\* an error or a warning logged.
C23_SupportedValuesKept ==
  (Called("validateConfig")) =>
    /\ IF IsOneOf(Prop(MergedArgs, "provider"), {"openai", "ollama"})
         THEN Prop(call[1].ret, "provider") = Prop(MergedArgs, "provider")
         ELSE /\ Prop(call[1].ret, "provider") = Str("openai")
              /\ Len(call[1].errors) + Len(call[1].warnings) > 0
    /\ IF IsOneOf(Prop(MergedArgs, "gitPlatform"), {"github", "local"})
         THEN Prop(call[1].ret, "gitPlatform") = Prop(MergedArgs, "gitPlatform")
         ELSE /\ Prop(call[1].ret, "gitPlatform") = Str("github")
              /\ Len(call[1].errors) + Len(call[1].warnings) > 0
    /\ IF IsOneOf(Prop(MergedArgs, "severity"),
                  {"suggestion", "warning", "error"})
         THEN Prop(call[1].ret, "severity") = Prop(MergedArgs, "severity")
         ELSE /\ Prop(call[1].ret, "severity") = Str("suggestion")
              /\ Len(call[1].errors) + Len(call[1].warnings) > 0

\* validateConfig was called with the provider ollama on the command line
\* and the default config: it has logged an error and returned openai
C23_Witness ==
  /\ Called("validateConfig")
  /\ call[1].arg[1] = JObj(<<Member(<<"provider">>, Str("ollama"))>>)
  /\ call[1].arg[2] = DEFAULT_CONFIG
  /\ Prop(call[1].ret, "provider") = Str("openai")
  /\ call[1].errors = <<"Invalid provider">>

----------------------------------------------------------------------------
(* The choice of the parser                                                 *)

\* the legacy parser's result for the text the transport returned
LegacyResult == Some(parseFreeTextResponse(raw[1], config))

\* C24: once the transport has returned raw text, the result of review is
\* the legacy parser's result, with nothing logged, when the adapter does
\* not declare structured output (even for a valid structured response) and
\* when it does but the pre-check is false; when the pre-check is true and
\* the structured parser succeeds it is the Normalizer's output, made
\* without the legacy parser; when the pre-check is true and the structured
\* parser fails it is the legacy parser's result for the same text, and one
\* warning that carries the parser's error is logged.
C24_ParserChain ==
  raw # None =>
    /\ result # None
    /\ IF ~structured \/ ~looksLikeStructuredResponse(raw[1])
         THEN /\ result = LegacyResult
              /\ parser = "legacy"
              /\ warnings = <<>>
       ELSE IF parseStructuredResponse(raw[1]).success
         THEN /\ result = Some(Normalize(parseStructuredResponse(raw[1]).data[1],
                                         config).comments)
              /\ parser = "normalizer"
              /\ warnings = <<>>
       ELSE /\ result = LegacyResult
            /\ parser = "legacy"
            /\ warnings = <<parseStructuredResponse(raw[1]).error>>

\* an adapter without structured output has got a valid structured response
\* and returned what the legacy parser makes of it, which is not what the
\* Normalizer makes of it
C24_Witness ==
  /\ ~structured
  /\ raw = Some(ValidText)
  /\ parseStructuredResponse(ValidText).success
  /\ result = LegacyResult
  /\ result # Some(Normalize(parseStructuredResponse(ValidText).data[1],
                             config).comments)

----------------------------------------------------------------------------
(* The hunks of a patch                                                     *)

\* the last hunk of the patch of the call, and the lines the call returned
\* for it (its header and its body)
LastHunk == call[1].patch.hunks[Len(call[1].patch.hunks)]

LastHunkReturned ==
  LET out == SplitLines(call[1].ret[Len(call[1].ret)].patch[1])
  IN  SubSeq(out, Len(out) - Len(LastHunk.body), Len(out))

\* C25: the number annotated on an added line is the newStart of its hunk's
\* header plus the number of context and added lines between the header
\* and the line, removed lines not counted, whatever the hunks before it
\* in the file and the files before it in the call hold.
C25_NumberFromOwnHunk ==
  Called("parseUnifiedDiff") => LastHunkReturned = HunkLines(LastHunk, TRUE)

\* the last hunk, at line 20 after a hunk at line 5 and a file of another
\* patch, removes a last line without a line break and adds a line x: the
\* added line is numbered 21
C25_Witness ==
  /\ Called("parseUnifiedDiff")
  /\ Len(call[1].arg) = 2
  /\ Len(call[1].patch.hunks) = 2
  /\ call[1].patch.hunks[1].newStart = 5
  /\ LastHunk.body = <<PatchLine("del", <<"old">>), PatchLine("nonl", <<>>),
                       PatchLine("add", <<"x">>)>>
  /\ LastHunkReturned[4] = <<"+", "x", " // LINE_NUMBER: ", "2", "1">>

----------------------------------------------------------------------------
(* The errors of the validation                                             *)

\* the fields of an entry in the order of their checks, each with what its
\* error string says
FieldMessages ==
  <<[field |-> "file",
     says |-> ".file is required and must be a non-empty string"],
    [field |-> "line", says |-> ".line must be a positive integer"],
    [field |-> "severity",
     says |-> ".severity must be one of: critical, warning, suggestion, nitpick"],
    [field |-> "category",
     says |-> ".category must be one of: bug, security, performance, style, architecture, testing"],
    [field |-> "confidence",
     says |-> ".confidence must be a number between 0 and 1"],
    [field |-> "title",
     says |-> ".title is required and must be a non-empty string"],
    [field |-> "explanation",
     says |-> ".explanation is required and must be a non-empty string"],
    [field |-> "suggestion",
     says |-> ".suggestion must be a string if provided"]>>

\* entry e violates the condition of the field
Violates(e, field) ==
  LET v == Prop(e, field)
  IN  CASE field \in {"file", "title", "explanation"} ->
             ~(v.t = "str" /\ v.v # <<>>)
        [] field = "line" ->
             ~(v.t = "num" /\ v.v % Scale = 0 /\ v.v >= Scale)
        [] field = "severity" ->
             ~IsOneOf(v, {"critical", "warning", "suggestion", "nitpick"})
        [] field = "category" ->
             ~IsOneOf(v, {"bug", "security", "performance", "style",
                          "architecture", "testing"})
        [] field = "confidence" ->
             ~(v.t = "num" /\ v.v >= 0 /\ v.v <= Scale)
        [] field = "suggestion" -> v.t \notin {"undef", "str"}

\* the errors of entries es[k..], numbered from 0: one per violated field of
\* an entry that is an object (or an array, an object to typeof), one for
\* an entry that is none
RECURSIVE EntryErrors(_, _)
EntryErrors(es, k) ==
  IF k > Len(es) THEN <<>>
  ELSE (IF es[k].t \in {"obj", "arr"}
          THEN [j \in 1..Len(SelectSeq(FieldMessages,
                                       LAMBDA m : Violates(es[k], m.field))) |->
                  Prefix(k - 1)
                    \o <<SelectSeq(FieldMessages,
                                   LAMBDA m : Violates(es[k], m.field))[j].says>>]
          ELSE <<Prefix(k - 1) \o <<" must be an object">>>>)
         \o EntryErrors(es, k + 1)

\* C26: validateStructuredResponse does not stop at the first violation of
\* a comment: for every entry that is an object it gives one error per
\* violated field condition, in the order file, line, severity, category,
\* confidence, title, explanation, suggestion, the errors of an entry before
\* those of the next and the error of the summary last; a value that is no
\* object, and one whose comments is missing or no array, gives exactly one
\* error, with no check of a comment or of the summary.
C26_AllViolationsCollected ==
  Called("validateStructuredResponse") =>
    IF call[1].arg.t \notin {"obj", "arr"} \/ Prop(call[1].arg, "comments").t # "arr"
      THEN Len(call[1].ret.errors) = 1
      ELSE call[1].ret.errors =
             EntryErrors(Prop(call[1].arg, "comments").v, 1)
               \o (IF Prop(call[1].arg, "summary").t \notin {"undef", "str"}
                     THEN <<<<"'summary' must be a string if provided">>>>
                     ELSE <<>>)

\* a response whose summary is a number and whose two entries are a comment
\* without file and null: three errors, the one of the summary last
C26_Witness ==
  /\ Called("validateStructuredResponse")
  /\ Prop(call[1].arg, "summary") = JNum(Scale)
  /\ Prop(call[1].arg, "comments")
       = JArr(<<WithoutMember(Comment2, "file"), JNull>>)
  /\ call[1].ret.errors =
       <<<<"comments[", "0", "]",
           ".file is required and must be a non-empty string">>,
         <<"comments[", "1", "]", " must be an object">>,
         <<"'summary' must be a string if provided">>>>

----------------------------------------------------------------------------
(* The severity filter applied twice                                        *)

\* C27: for every list of structured comments and every threshold, the
\* severity filter of the Normalizer applied to the comments that survived
\* a first application with the same threshold lets all of them through:
\* twice gives what once gives.
C27_SeverityFilterIdempotent ==
  Called("severityFilter") =>
    /\ call[1].again = call[1].ret
    /\ \A k \in 1..Len(call[1].ret) :
         ~BelowMinSeverity(call[1].ret[k], call[1].arg[2])

\* with the threshold warning, of a nitpick and a critical comment the
\* critical one has survived, the first time and the second
C27_Witness ==
  /\ Called("severityFilter")
  /\ call[1].arg[2].severity = Some("warning")
  /\ Len(call[1].arg[1]) = 2
  /\ SeverityText(call[1].arg[1][1]) = "nitpick"
  /\ SeverityText(call[1].arg[1][2]) = "critical"
  /\ call[1].ret = <<call[1].arg[1][2]>>
  /\ call[1].again = call[1].ret

----------------------------------------------------------------------------
(* The comment style                                                        *)

\* C28: when config.commentStyle is summary, every comment review returns
\* is of type summary, whichever parser made the list.
C28_SummaryStyleOnlySummaries ==
  (result # None /\ config.commentStyle = Some("summary")) =>
    \A k \in 1..Len(result[1]) : result[1][k].type = "summary"

\* with commentStyle summary, a structured adapter has got the valid
\* response and returned an inline comment made by the Normalizer
C28_Witness ==
  /\ structured
  /\ config.commentStyle = Some("summary")
  /\ raw = Some(ValidText)
  /\ parser = "normalizer"
  /\ result # None
  /\ \E k \in 1..Len(result[1]) : result[1][k].type = "inline"

----------------------------------------------------------------------------
(* The pre-check and the structured parser                                  *)

\* C29: for every text, if parseStructuredResponse succeeds on it then
\* looksLikeStructuredResponse is true of it, so that no valid structured
\* response goes to the legacy parser; and when the pre-check is true, a
\* failure of parseStructuredResponse is not the one of a top-level value
\* that is no object nor the one of a comments that is no array.
C29_PreCheckNeverDivertsValid ==
  Called("parseStructuredResponse") =>
    /\ call[1].ret.success => looksLikeStructuredResponse(call[1].arg)
    /\ (looksLikeStructuredResponse(call[1].arg) /\ ~call[1].ret.success) =>
         /\ call[1].ret.error
              # Some(<<"Validation failed: ", "Response must be an object">>)
         /\ call[1].ret.error
              # Some(<<"Validation failed: ", "'comments' must be an array">>)

\* a valid response with white space around it has been parsed with
\* success, and the pre-check is true of it
C29_Witness ==
  /\ Called("parseStructuredResponse")
  /\ call[1].arg = <<" ", NL>> \o ValidText \o <<NL>>
  /\ call[1].ret.success
  /\ looksLikeStructuredResponse(call[1].arg)

====
